---- MODULE Spec2Model ----
(***************************************************************************)
(* Model of the mem0-mcp server: the retry policy of the backend client    *)
(* adapter (retry_operation), the tool handlers of the three server        *)
(* variants (server_factory.py + memory_tools.py, main_render.py, main.py) *)
(* and the SSE session transport the applications mount.                   *)
(*                                                                         *)
(* Times are in milliseconds (retry_delay=1.0 is 1000, 0.5 is 500).        *)
(***************************************************************************)
EXTENDS Integers, Sequences, FiniteSets, TLC

\* ---------------------------------------------------------------- bounds
MaxSessions == 2
MaxRequests == 2
MaxRetriesBound == 4
MaxRecords == 2
MaxEntries == 3
MaxFiles == 2
MaxCloses == 2
MaxLines == 2

\* ------------------------------------------------------ program constants
DEFAULT_MAX_RETRIES == 3
DEFAULT_RETRY_DELAY == 1000
CHECK_MAX_RETRIES == 2
CHECK_RETRY_DELAY == 500
StaleSessionId == 0
NoSession == -1

SessionIds == 1..MaxSessions
RetryChoices == -1..MaxRetriesBound
DelayChoices == {CHECK_RETRY_DELAY, DEFAULT_RETRY_DELAY}
Variants == {"factory", "render", "main"}
ErrorKinds == {"network", "malformed"}

BasicTools == {"add_memory", "get_all_memories", "search_memories"}
FiveTools == BasicTools \cup {"update_memory", "delete_memory"}
RetriedReaders == {"check_relevant_memories", "get_memories_by_category"}
DirectReaders == {"get_memory_stats", "advanced_search_memories", "analyze_memories",
                  "export_memories"}
AllTools == FiveTools \cup RetriedReaders \cup DirectReaders
\* the tools the clients of the session model invoke
PostedTools == {"add_memory"}

VARIABLES
    variant,         \* which server file is running
    rpc,             \* position inside the handler / retry_operation
    max_retries,     \* retry_operation argument
    retry_delay,     \* retry_operation argument
    attempt,         \* loop variable of retry_operation
    trace,           \* outcome of every invocation of func, in order
    sleeps,          \* every time.sleep(wait_time) performed, in order
    last_exception,  \* local variable of retry_operation
    outcome,         \* what the call returned or raised to its caller
    live,            \* session id -> stream mapping of the transport (its keys)
    opened,          \* every session id ever generated
    conn,            \* per session: state of the client connection
    inbox,           \* per session: requests accepted and not yet handled
    stream,          \* per session: events written on the SSE stream
    http,            \* the response to the POST /messages/ just served
    cur,             \* the request whose handler occupies the event loop
    accepted,        \* accepted[r] is the session that accepted request id r
    backend,         \* the records the memory backend holds
    call,            \* the last call the adapter made to the backend
    reply,           \* what the last tool handler / adapter operation gave its caller
    mode,            \* the configured mode (MODE / Config.mode)
    registry,        \* the tools registered on the running server
    health,          \* the response to the GET / or GET /health just served
    imp,             \* the import run in progress (import_single / import_memories)
    batch,           \* the import_batch run in progress
    client,          \* the global _client_instance and its construction history
    holders,         \* per component: the adapter instance get_client gave it
    closes,          \* per session id: the result of every CloseSession on it, in order
    script           \* the run of import_chatwise.py / batch_import_chatwise.py in progress

rvars == <<rpc, max_retries, retry_delay, attempt, trace, sleeps, last_exception, outcome>>
xvars == <<mode, registry, health, imp, batch, client, holders, closes, script>>
dvars == <<backend, call, reply, mode, registry, health, imp, batch, client, holders, closes, script>>
svars == <<live, opened, conn, inbox, stream, http, cur, accepted, backend, call, reply,
           mode, registry, health, imp, batch, client, holders, closes, script>>
vars == <<variant, rpc, max_retries, retry_delay, attempt, trace, sleeps, last_exception,
          outcome, live, opened, conn, inbox, stream, http, cur, accepted,
          backend, call, reply, mode, registry, health, imp, batch, client, holders, closes, script>>

\* ------------------------------------------------------------ values
NoneVal == [kind |-> "None", at |-> 0]
TypeErrorVal == [kind |-> "TypeError", at |-> 0]
NoReq == [session |-> NoSession, id |-> 0, method |-> "none"]
NoHttp == [sid |-> NoSession, status |-> 0, error |-> "none", reconnect |-> FALSE, by |-> "none"]
NoUser == "None"
NoCall == [op |-> "none", passed |-> NoUser, sent |-> NoUser]
NoReply == [kind |-> "none", records |-> {}]
NoHealth == [path |-> "none", status |-> 0, fields |-> {}]
NoImp == [who |-> "none", entries |-> <<>>, skipdup |-> FALSE, stored |-> {}, existing |-> {},
          i |-> 0, imported |-> 0, skipped |-> 0, errors |-> <<>>, adds |-> 0, empty |-> 0,
          log |-> <<>>,
          result |-> <<>>, pc |-> "idle"]
NoBatch == [files |-> <<>>, skipdup |-> FALSE, stored |-> {}, k |-> 0, imported |-> 0,
            skipped |-> 0, errors |-> 0, details |-> <<>>, pc |-> "idle"]
NoScript == [who |-> "none", chats |-> <<>>, k |-> 0, queue |-> <<>>, memories_added |-> 0,
             skipped |-> 0, errors |-> <<>>, sent |-> <<>>, processed_chats |-> 0,
             total_messages |-> 0, out |-> <<>>, raises |-> "", raised |-> "",
             pc |-> "idle"]
NoWrapper == [id |-> 0, default_user_id |-> "None"]
NoClient == [instance |-> NoWrapper, built |-> 0, failed |-> 0, calls |-> 0, last |-> "none"]
Callers == {"MemoryTools", "ChatwiseImporter", "ServerFactory"}
Modes == {"basic", "full"}

RECURSIVE Pow2(_)
Pow2(n) == IF n <= 0 THEN 1 ELSE 2 * Pow2(n - 1)

\* ------------------------------------------------- retry_operation pieces
\* for attempt in range(max_retries)
LoopContinues_OffByOne(a, n) == a <= n
LoopContinues(a, n) == a < n

\* if attempt < max_retries - 1
ShouldSleep(a, n) == a < n - 1

\* wait_time = retry_delay * (2 ** attempt)
WaitTime_Linear(d, a) == d * (a + 1)
WaitTime(d, a) == d * Pow2(a)

\* raise last_exception: raising None is a TypeError
Raised(e) == IF e = NoneVal THEN TypeErrorVal ELSE e

\* return func()
RetrySucceed_NoReturn ==
    /\ trace' = Append(trace, "ok")
    /\ attempt' = attempt + 1
    /\ UNCHANGED <<rpc, outcome, sleeps, last_exception>>
RetrySucceed ==
    /\ trace' = Append(trace, "ok")
    /\ rpc' = "returned"
    /\ outcome' = [kind |-> "ok", at |-> Len(trace) + 1]
    /\ UNCHANGED <<attempt, sleeps, last_exception>>

\* except Exception as e: every exception takes this branch, whatever its kind
RetryFail_NoRetryMalformed(k) ==
    /\ trace' = Append(trace, k)
    /\ last_exception' = [kind |-> k, at |-> Len(trace) + 1]
    /\ IF k = "malformed"
       THEN /\ rpc' = "raised"
            /\ outcome' = [kind |-> k, at |-> Len(trace) + 1]
            /\ UNCHANGED <<sleeps, attempt>>
       ELSE /\ IF ShouldSleep(attempt, max_retries)
               THEN /\ sleeps' = Append(sleeps, WaitTime(retry_delay, attempt))
                    /\ rpc' = "sleeping"
                    /\ UNCHANGED attempt
               ELSE /\ attempt' = attempt + 1
                    /\ UNCHANGED <<sleeps, rpc>>
            /\ UNCHANGED outcome
RetryFail(k) ==
    /\ trace' = Append(trace, k)
    /\ last_exception' = [kind |-> k, at |-> Len(trace) + 1]
    /\ IF ShouldSleep(attempt, max_retries)
       THEN /\ sleeps' = Append(sleeps, WaitTime(retry_delay, attempt))
            /\ rpc' = "sleeping"
            /\ UNCHANGED attempt
       ELSE /\ attempt' = attempt + 1
            /\ UNCHANGED <<sleeps, rpc>>
    /\ UNCHANGED outcome

\* the exceptions func can raise: anything when retry_operation is given an
\* arbitrary callable; the tools' backend calls are made for requests with
\* non-empty arguments and fail only for network/backend reasons
FuncErrors == IF cur = NoReq THEN ErrorKinds ELSE {"network"}

\* one iteration of the loop: func() is invoked and returns or raises
RetryAttempt ==
    /\ rpc = "try"
    /\ LoopContinues(attempt, max_retries)
    /\ \/ RetrySucceed
       \/ \E k \in FuncErrors : RetryFail(k)
    /\ UNCHANGED <<variant, max_retries, retry_delay>>
    /\ UNCHANGED svars

\* time.sleep(wait_time) returns and the loop goes to its next iteration
RetryWake ==
    /\ rpc = "sleeping"
    /\ rpc' = "try"
    /\ attempt' = attempt + 1
    /\ UNCHANGED <<variant, max_retries, retry_delay, trace, sleeps, last_exception, outcome>>
    /\ UNCHANGED svars

\* the loop is over without a return: raise last_exception
RetryExhausted ==
    /\ rpc = "try"
    /\ ~LoopContinues(attempt, max_retries)
    /\ rpc' = "raised"
    /\ outcome' = Raised(last_exception)
    /\ UNCHANGED <<variant, max_retries, retry_delay, attempt, trace, sleeps, last_exception>>
    /\ UNCHANGED svars

\* retry_operation(func, max_retries, retry_delay) called on its own
RetryInit ==
    /\ rpc = "try"
    /\ max_retries \in RetryChoices
    /\ retry_delay \in DelayChoices
    /\ attempt = 0
    /\ trace = <<>>
    /\ sleeps = <<>>
    /\ last_exception = NoneVal
    /\ outcome = NoneVal

\* the tools each server file registers
ToolsOf(v) ==
    IF v = "main" THEN BasicTools
    ELSE IF v = "render" THEN AllTools \cup {"import_memories"}
    ELSE AllTools

\* main(): ServerFactory.create_server(name=..., custom_instructions=...,
\* debug=...): the mode argument is not passed, so it has its default
ModePassed(cfg) == "full"

\* create_server: enable_advanced = mode == "full"
CreateServerTools(m) == IF m = "full" THEN AllTools ELSE BasicTools

\* the tools on the running server
RegisteredTools(v, cfg) ==
    IF v = "factory" THEN CreateServerTools(ModePassed(cfg)) ELSE ToolsOf(v)

\* nothing but the server: no import run, no health request served, no
\* adapter instance built yet
ExtrasIdle ==
    /\ health = NoHealth
    /\ imp = NoImp
    /\ batch = NoBatch
    /\ client = NoClient
    /\ holders = [c \in Callers |-> NoWrapper]
    /\ closes = [s \in SessionIds \cup {StaleSessionId} |-> <<>>]
    /\ script = NoScript

ServerIdle ==
    /\ live = {}
    /\ opened = {}
    /\ conn = [s \in SessionIds |-> "none"]
    /\ inbox = [s \in SessionIds |-> <<>>]
    /\ stream = [s \in SessionIds |-> <<>>]
    /\ http = NoHttp
    /\ cur = NoReq
    /\ accepted = <<>>
    /\ backend = {}
    /\ call = NoCall
    /\ reply = NoReply
    /\ mode = "full"
    /\ registry = RegisteredTools(variant, mode)
    /\ ExtrasIdle

InitRetry ==
    /\ variant = "factory"
    /\ RetryInit
    /\ ServerIdle

NextRetry ==
    \/ RetryAttempt
    \/ RetryWake
    \/ RetryExhausted

SpecRetry == InitRetry /\ [][NextRetry]_vars
Finished == rpc \in {"returned", "raised"}

\* ------------------------------------------------------------ tool handlers
\* Mem0ClientWrapper.add_memory / search_memories / get_all_memories /
\* update_memory / delete_memory: each ends in self.retry_operation(_op) with
\* the default arguments
WrapperPolicy_DeleteUnwrapped(m) ==
    IF m = "delete_memory"
    THEN [wrapped |-> FALSE, n |-> 1, d |-> 0]
    ELSE [wrapped |-> TRUE, n |-> DEFAULT_MAX_RETRIES, d |-> DEFAULT_RETRY_DELAY]
WrapperPolicy(m) ==
    [wrapped |-> TRUE, n |-> DEFAULT_MAX_RETRIES, d |-> DEFAULT_RETRY_DELAY]

\* the tools of main_render.py call retry_operation themselves, or call
\* mem0_client directly
RenderPolicy(m) ==
    IF m \in FiveTools \cup {"get_memories_by_category"}
    THEN [wrapped |-> TRUE, n |-> 3, d |-> 1000]
    ELSE IF m = "check_relevant_memories"
         THEN [wrapped |-> TRUE, n |-> CHECK_MAX_RETRIES, d |-> CHECK_RETRY_DELAY]
         ELSE [wrapped |-> FALSE, n |-> 1, d |-> 0]

\* the tools of main.py call mem0_client directly inside try/except
MainPolicy(m) == [wrapped |-> FALSE, n |-> 1, d |-> 0]

ToolPolicy(v, m) ==
    IF v = "factory" THEN WrapperPolicy(m)
    ELSE IF v = "render" THEN RenderPolicy(m)
    ELSE MainPolicy(m)

\* try: ... return "Successfully ..." except Exception as e: return "Error ..."
ToolResult(pc) == IF pc = "returned" THEN "success" ELSE "error"

\* every tool body is one try: ... except Exception as e: return "Error ..."
TryCovers_NotDelete(v, m) == m # "delete_memory"
TryCovers(v, m) == TRUE

\* what the backend's answer can look like when the call did not raise
ResultShapes == {"wellformed", "malformed"}

\* the tools that read the backend's answer; add_memory (and update_memory,
\* delete_memory of memory_tools.py) return their success string unread
InspectsResult(v, m) ==
    /\ m # "add_memory"
    /\ ~(v = "factory" /\ m \in {"update_memory", "delete_memory"})

\* what the handler gives the server: a string, or the exception if one
\* escaped the handler
HandlerOutcome(v, m, pc, shape) ==
    IF pc = "returned" /\ shape = "malformed" /\ InspectsResult(v, m)
    THEN IF TryCovers(v, m) THEN "error" ELSE "exception"
    ELSE IF pc = "raised" /\ ~TryCovers(v, m) THEN "exception"
    ELSE ToolResult(pc)

\* the answers the handler has to read: none when it returned without a call
AnswerShapes(calls) == IF calls = <<>> THEN {"wellformed"} ELSE ResultShapes

\* the handler of a tool called on its own returns
HandlerReturn ==
    /\ cur # NoReq
    /\ cur.session = NoSession
    /\ Finished
    /\ reply = NoReply
    /\ \E shape \in AnswerShapes(trace) :
          reply' = [kind |-> HandlerOutcome(variant, cur.method, rpc, shape), records |-> {}]
    /\ UNCHANGED <<variant, live, opened, conn, inbox, stream, http, cur, accepted, backend, call>>
    /\ UNCHANGED xvars
    /\ UNCHANGED rvars

\* ------------------------------------------------------------- application
\* Starlette(routes=[...]): no middleware or request filter is installed in
\* front of the routes by any of the three applications
Middleware(v) == {}
GuardInstalled == "stale_session_guard" \in Middleware(variant)

\* the handlers are synchronous (time.sleep, blocking client calls) inside the
\* single event loop: while one runs nothing else is served
LoopFree == cur = NoReq

\* handle_sse: mcp_server.run(read_stream, write_stream) is awaited inside
\* connect_sse, so the server reads a session's requests while it is connected
ServerRuns_Never(s) == FALSE
ServerRuns(s) == s \in live

\* handle_sse hands the (read_stream, write_stream) pair of one connect_sse
\* to one mcp_server.run: responses go to the stream the request came from
ResponseTarget_FirstLive(req) ==
    IF live = {} THEN req.session ELSE CHOOSE s \in live : \A t \in live : s <= t
ResponseTarget(req) == req.session

\* transport: lookup of the session id in the live mapping
SessionKnown_EverOpened(sid) == sid \in opened
SessionKnown(sid) == sid \in live

NumProtocolErrors ==
    Cardinality({p \in SessionIds \X (1..(MaxRequests + 1)) :
                    /\ p[2] \in DOMAIN stream[p[1]]
                    /\ stream[p[1]][p[2]].type = "protocol_error"})

Event(t, s, r, res) == [type |-> t, session |-> s, id |-> r, result |-> res]

ServerInit ==
    /\ variant \in Variants
    /\ rpc = "idle"
    /\ max_retries = 0
    /\ retry_delay = 0
    /\ attempt = 0
    /\ trace = <<>>
    /\ sleeps = <<>>
    /\ last_exception = NoneVal
    /\ outcome = NoneVal
    /\ ServerIdle

\* session_id = uuid4(): a token no session had before; tokens are numbered
\* in the order they are generated
NewSessionId_Reuse == CHOOSE s \in SessionIds \ live : \A t \in SessionIds \ live : s <= t
NewSessionId == CHOOSE s \in SessionIds \ opened : \A t \in SessionIds \ opened : s <= t

\* the first event of a connection: event "endpoint" whose data is the
\* address /messages/?session_id=<id> of the session
EndpointEvent_SameAddress(s) == Event("endpoint", StaleSessionId, 0, "none")
EndpointEvent(s) == Event("endpoint", s, 0, "none")

\* GET /sse -> handle_sse -> connect_sse: new id, registered, endpoint event
OpenSession ==
    /\ LoopFree
    /\ opened # SessionIds
    /\ LET s == NewSessionId IN
          /\ opened' = opened \cup {s}
          /\ live' = live \cup {s}
          /\ conn' = [conn EXCEPT ![s] = "open"]
          /\ stream' = [stream EXCEPT ![s] = Append(@, EndpointEvent(s))]
    /\ http' = NoHttp
    /\ UNCHANGED <<inbox, cur, accepted, variant>>
    /\ UNCHANGED dvars
    /\ UNCHANGED rvars

\* a connection that ends (client gone, stream error) is the end of its own
\* handle_sse call only: every connection has a handle_sse call of its own
ConnAfterDrop_All(c, s) == [t \in DOMAIN c |-> IF c[t] = "open" THEN "dropped" ELSE c[t]]
ConnAfterDrop(c, s) == [c EXCEPT ![s] = "dropped"]

\* the client closes (or loses) its connection
Disconnect ==
    /\ \E s \in SessionIds :
          /\ conn[s] = "open"
          /\ conn' = ConnAfterDrop(conn, s)
    /\ http' = NoHttp
    /\ UNCHANGED <<live, opened, inbox, stream, cur, accepted, variant>>
    /\ UNCHANGED dvars
    /\ UNCHANGED rvars

\* CloseSession(sessionId): removes the mapping entry; closing an id that is
\* not in the mapping is a no-op
MappingAfterClose_Toggle(l, s) == IF s \in l THEN l \ {s} ELSE l \cup {s}
MappingAfterClose(l, s) == l \ {s}

\* CloseSession(sessionId): releases the outbound channel of a connection
\* that has ended; an id without such a connection is left as it is
ConnAfterClose_Stays(c, s) == c
ConnAfterClose(c, s) ==
    IF s \in DOMAIN c /\ c[s] = "dropped" THEN [c EXCEPT ![s] = "closed"] ELSE c

\* CloseSession(sessionId) gives its caller no error, whether or not the id
\* is in the mapping
CloseResult(l, s) == "ok"

\* CloseSession(sessionId): the mapping entry is removed, the outbound channel
\* released and what the session had queued is dropped; the caller gets the
\* result. Nothing else of the server is touched
CloseSession(s) ==
    /\ conn' = ConnAfterClose(conn, s)
    /\ live' = MappingAfterClose(live, s)
    /\ inbox' = IF s \in live THEN [inbox EXCEPT ![s] = <<>>] ELSE inbox
    /\ closes' = [closes EXCEPT ![s] = Append(@, CloseResult(live, s))]
    /\ http' = NoHttp
    /\ UNCHANGED <<opened, stream, cur, accepted, variant>>
    /\ UNCHANGED <<backend, call, reply, mode, registry, health, imp, batch, client, holders,
                   script>>
    /\ UNCHANGED rvars

\* the read loop of a disconnected session ends and connect_sse exits: the
\* session is closed, once per connection
ConnectionEnds ==
    /\ LoopFree
    /\ \E s \in SessionIds :
          /\ conn[s] = "dropped"
          /\ Len(closes[s]) < MaxCloses
          /\ CloseSession(s)

\* CloseSession called on an id that is not in the mapping: a session that
\* was closed before, or an id no session ever had
CloseAgain ==
    /\ LoopFree
    /\ \E s \in (opened \ live) \cup {StaleSessionId} :
          /\ Len(closes[s]) < MaxCloses
          /\ CloseSession(s)

\* the answer to a request that was parsed and queued: 202 Accepted
AcceptedResponse_Gone(sid) ==
    [sid |-> sid, status |-> 410, error |-> "session_expired", reconnect |-> TRUE, by |-> "transport"]
AcceptedResponse(sid) ==
    [sid |-> sid, status |-> 202, error |-> "none", reconnect |-> FALSE, by |-> "transport"]

\* transport.handle_post_message
HandlePostMessage_DropsMalformed(sid, wf, m) ==
    IF ~SessionKnown(sid)
    THEN /\ http' = [sid |-> sid, status |-> 404, error |-> "session_not_found",
                     reconnect |-> FALSE, by |-> "transport"]
         /\ UNCHANGED <<inbox, stream, accepted>>
    ELSE IF ~wf
    THEN /\ http' = [sid |-> sid, status |-> 400, error |-> "parse_error",
                     reconnect |-> FALSE, by |-> "transport"]
         /\ UNCHANGED <<inbox, stream, accepted>>
    ELSE /\ http' = AcceptedResponse(sid)
         /\ inbox' = [inbox EXCEPT ![sid] =
                         Append(@, [session |-> sid, id |-> Len(accepted) + 1, method |-> m])]
         /\ accepted' = Append(accepted, sid)
         /\ UNCHANGED stream
HandlePostMessage(sid, wf, m) ==
    IF ~SessionKnown(sid)
    THEN /\ http' = [sid |-> sid, status |-> 404, error |-> "session_not_found",
                     reconnect |-> FALSE, by |-> "transport"]
         /\ UNCHANGED <<inbox, stream, accepted>>
    ELSE IF ~wf
    THEN /\ http' = [sid |-> sid, status |-> 400, error |-> "parse_error",
                     reconnect |-> FALSE, by |-> "transport"]
         /\ stream' = [stream EXCEPT ![sid] = Append(@, Event("protocol_error", sid, 0, "error"))]
         /\ UNCHANGED <<inbox, accepted>>
    ELSE /\ http' = AcceptedResponse(sid)
         /\ inbox' = [inbox EXCEPT ![sid] =
                         Append(@, [session |-> sid, id |-> Len(accepted) + 1, method |-> m])]
         /\ accepted' = Append(accepted, sid)
         /\ UNCHANGED stream

\* POST /messages/?session_id=sid through the application's routes
PostMessage ==
    /\ LoopFree
    /\ \E sid \in SessionIds \cup {StaleSessionId}, wf \in BOOLEAN, m \in PostedTools \cap registry :
          /\ SessionKnown(sid) => Len(accepted) + NumProtocolErrors < MaxRequests
          /\ ~wf => m = "add_memory"
          /\ IF GuardInstalled /\ sid = StaleSessionId
             THEN /\ http' = [sid |-> sid, status |-> 410, error |-> "session_expired",
                              reconnect |-> TRUE, by |-> "guard"]
                  /\ UNCHANGED <<inbox, stream, accepted>>
             ELSE HandlePostMessage(sid, wf, m)
    /\ UNCHANGED <<live, opened, conn, cur, variant>>
    /\ UNCHANGED dvars
    /\ UNCHANGED rvars

\* the server takes the next request of a session and calls the tool
StartHandle ==
    /\ LoopFree
    /\ \E s \in SessionIds :
          /\ ServerRuns(s)
          /\ inbox[s] # <<>>
          /\ cur' = Head(inbox[s])
          /\ inbox' = [inbox EXCEPT ![s] = Tail(@)]
          /\ LET pol == ToolPolicy(variant, Head(inbox[s]).method) IN
                /\ rpc' = IF pol.wrapped THEN "try" ELSE "direct"
                /\ max_retries' = pol.n
                /\ retry_delay' = pol.d
    /\ attempt' = 0
    /\ trace' = <<>>
    /\ sleeps' = <<>>
    /\ last_exception' = NoneVal
    /\ outcome' = NoneVal
    /\ http' = NoHttp
    /\ UNCHANGED <<live, opened, conn, stream, accepted, variant>>
    /\ UNCHANGED dvars

\* the handlers that look at their arguments first and can return before
\* any backend call: get_memories_by_category of memory_tools.py (no
\* category given: the list of the categories is returned),
\* advanced_search_memories of main_render.py (a category it does not know)
\* and import_memories (JSON that does not parse or has no "memories" array)
ReturnsBeforeCall(v, m) ==
    \/ v = "factory" /\ m = "get_memories_by_category"
    \/ v = "render" /\ m \in {"advanced_search_memories", "import_memories"}

\* import_memories calls the backend once for the listing and once for
\* every entry it adds
ManyCalls(v, m) == v = "render" /\ m = "import_memories"

\* the handler returns on its arguments: the backend client is not called
\* and retry_operation is not entered
ReturnOnArguments ==
    /\ rpc \in {"try", "direct"}
    /\ cur # NoReq
    /\ ReturnsBeforeCall(variant, cur.method)
    /\ attempt = 0
    /\ trace = <<>>
    /\ rpc' = "returned"
    /\ outcome' = [kind |-> "ok", at |-> 0]
    /\ UNCHANGED <<variant, max_retries, retry_delay, attempt, trace, sleeps, last_exception>>
    /\ UNCHANGED svars

\* a tool that calls the backend client once, without retry_operation
DirectCall ==
    /\ rpc = "direct"
    /\ ~ManyCalls(variant, cur.method)
    /\ \/ /\ trace' = Append(trace, "ok")
          /\ rpc' = "returned"
          /\ outcome' = [kind |-> "ok", at |-> 1]
       \/ \E k \in FuncErrors :
             /\ trace' = Append(trace, k)
             /\ rpc' = "raised"
             /\ outcome' = [kind |-> k, at |-> 1]
    /\ UNCHANGED <<variant, max_retries, retry_delay, attempt, sleeps, last_exception>>
    /\ UNCHANGED svars

\* import_memories called as a tool: mem0_client.get_all (with
\* skip_duplicates) and one mem0_client.add per entry, each called once. A
\* raising add is recorded in the summary and the loop goes on; only the
\* listing, which is the first call, takes the handler to its except branch
MaxImportCalls == MaxEntries + 1

ImportToolCall ==
    /\ rpc = "direct"
    /\ ManyCalls(variant, cur.method)
    /\ Len(trace) < MaxImportCalls
    /\ \/ /\ trace' = Append(trace, "ok")
          /\ UNCHANGED <<rpc, outcome>>
       \/ \E k \in FuncErrors :
             /\ trace' = Append(trace, k)
             /\ \/ UNCHANGED <<rpc, outcome>>
                \/ /\ trace = <<>>
                   /\ rpc' = "raised"
                   /\ outcome' = [kind |-> k, at |-> 1]
    /\ UNCHANGED <<variant, max_retries, retry_delay, attempt, sleeps, last_exception>>
    /\ UNCHANGED svars

\* the loop of import_memories is over and the summary is returned
ImportToolReturn ==
    /\ rpc = "direct"
    /\ ManyCalls(variant, cur.method)
    /\ trace # <<>>
    /\ rpc' = "returned"
    /\ outcome' = [kind |-> "ok", at |-> Len(trace)]
    /\ UNCHANGED <<variant, max_retries, retry_delay, attempt, trace, sleeps, last_exception>>
    /\ UNCHANGED svars

\* str.lower() on the strings of the model
Lower(str) ==
    CASE str = "I love my job" -> "i love my job"
      [] str = "Zzz Qqq Xxxx" -> "zzz qqq xxxx"
      [] str = "X" -> "x"
      [] str = "3 Errors: seen" -> "3 errors: seen"
      [] str = "I love my job [#work #preferences]" -> "i love my job [#work #preferences]"
      [] str = "I **love** my  job" -> "i **love** my  job"
      [] str = "I **love** my job" -> "i **love** my job"
      [] str = "  Zzz Qqq Xxxx  " -> "  zzz qqq xxxx  "
      [] str = "Quit" -> "quit"
      [] str = " Quit " -> " quit "
      [] OTHER -> str

\* the text argument the client sends with its request: the first request
\* brings a text with keywords of two categories, the later ones a text
\* with none
RequestText(req) == IF req.id = 1 THEN "I love my job" ELSE "memo " \o ToString(req.id)

\* categorize_memory of main_render.py: the categories, in the order of
\* CATEGORY_KEYWORDS, that have a keyword inside the lower-cased content
\* ("job" is a keyword of work, "love" of preferences); "other" without one
CategorizeMemory(content) ==
    IF Lower(content) = "i love my job" THEN <<"work", "preferences">> ELSE <<"other">>

\* ', '.join(categories)
RECURSIVE JoinComma(_)
JoinComma(cats) ==
    IF Len(cats) = 0 THEN ""
    ELSE IF Len(cats) = 1 THEN cats[1]
    ELSE cats[1] \o ", " \o JoinComma(Tail(cats))

\* category_info = f" (Categories: {', '.join(categories)})" if categories
\* != ["other"] else ""
CategoryInfo(cats) ==
    IF cats # <<"other">> THEN " (Categories: " \o JoinComma(cats) \o ")" ELSE ""

\* what mem0_client.add gave back to add_memory of main_render.py: an object
\* with an id attribute, or an answer without one (a dict, a list, None)
AddAnswers == {[hasid |-> FALSE, id |-> 0], [hasid |-> TRUE, id |-> 1]}

\* the string add_memory returns: memory_tools.py and main.py answer with
\* the text they were given, main_render.py with a confirmation of its own
\* that names the id of the backend's answer, when it has one, and the
\* categories of the content
AddMemoryText(v, pc, err, text, ans) ==
    IF v = "render"
    THEN IF pc = "returned"
         THEN IF ans.hasid
              THEN "Successfully stored memory with ID: " \o ToString(ans.id)
                      \o CategoryInfo(CategorizeMemory(text))
                      \o ". The information has been indexed and can be retrieved later."
              ELSE "Memory stored successfully" \o CategoryInfo(CategorizeMemory(text)) \o "."
         ELSE "Error storing memory: " \o err \o ". Please try again later."
    ELSE IF pc = "returned"
         THEN "Successfully added to memory: " \o text
         ELSE "Error adding to memory: " \o err

\* the response to a tools/call: the request's id, the handler's string
ResponseEvent(v, req, pc, err, ans) ==
    [type |-> "response", session |-> req.session, id |-> req.id, result |-> ToolResult(pc),
     text |-> AddMemoryText(v, pc, err, RequestText(req), ans)]

\* a response can be written only while the client's connection is there
ChannelOpen_Always(t) == TRUE
ChannelOpen(t) == conn[t] = "open"

\* the handler returns its string and the response is written on the stream
\* of the request's session, unless that connection is gone
Respond ==
    /\ cur # NoReq
    /\ Finished
    /\ \E ans \in AddAnswers :
          LET t == ResponseTarget(cur) IN
             stream' = IF ChannelOpen(t)
                       THEN [stream EXCEPT ![t] =
                               Append(@, ResponseEvent(variant, cur, rpc, outcome.kind, ans))]
                       ELSE stream
    /\ cur' = NoReq
    /\ rpc' = "idle"
    /\ max_retries' = 0
    /\ retry_delay' = 0
    /\ attempt' = 0
    /\ trace' = <<>>
    /\ sleeps' = <<>>
    /\ last_exception' = NoneVal
    /\ outcome' = NoneVal
    /\ http' = NoHttp
    /\ UNCHANGED <<live, opened, conn, inbox, accepted, variant>>
    /\ UNCHANGED dvars

Init == ServerInit

\* one tool of one server file called on its own
InitTools ==
    /\ variant \in Variants
    /\ mode \in Modes
    /\ registry = RegisteredTools(variant, mode)
    /\ \E m \in registry :
          /\ cur = [session |-> NoSession, id |-> 0, method |-> m]
          /\ rpc = IF ToolPolicy(variant, m).wrapped THEN "try" ELSE "direct"
          /\ max_retries = ToolPolicy(variant, m).n
          /\ retry_delay = ToolPolicy(variant, m).d
    /\ attempt = 0
    /\ trace = <<>>
    /\ sleeps = <<>>
    /\ last_exception = NoneVal
    /\ outcome = NoneVal
    /\ live = {}
    /\ opened = {}
    /\ conn = [s \in SessionIds |-> "none"]
    /\ inbox = [s \in SessionIds |-> <<>>]
    /\ stream = [s \in SessionIds |-> <<>>]
    /\ http = NoHttp
    /\ accepted = <<>>
    /\ backend = {}
    /\ call = NoCall
    /\ reply = NoReply
    /\ ExtrasIdle

NextTools ==
    \/ RetryAttempt
    \/ RetryWake
    \/ RetryExhausted
    \/ DirectCall
    \/ ReturnOnArguments
    \/ ImportToolCall
    \/ ImportToolReturn
    \/ HandlerReturn

SpecTools == InitTools /\ [][NextTools]_vars

Next ==
    \/ OpenSession
    \/ Disconnect
    \/ ConnectionEnds
    \/ PostMessage
    \/ StartHandle
    \/ RetryAttempt
    \/ RetryWake
    \/ RetryExhausted
    \/ DirectCall
    \/ Respond

Spec == Init /\ [][Next]_vars

\* the servers of server_factory.py and main.py (add_memory of main_render.py
\* follows the same policy as the factory's): the event loop keeps running the
\* handler it started and the server loop of every session with a queued
\* request gets its turn
FairInit ==
    /\ Init
    /\ variant \in {"factory", "main"}

FairSpec ==
    /\ FairInit
    /\ [][Next]_vars
    /\ WF_vars(StartHandle)
    /\ WF_vars(RetryAttempt)
    /\ WF_vars(RetryWake)
    /\ WF_vars(RetryExhausted)
    /\ WF_vars(DirectCall)
    /\ WF_vars(Respond)

\* the handler steps are taken as in FairSpec, and a disconnected session's
\* read loop ends, connect_sse leaving its context once the loop is free
FairCloseSpec ==
    /\ FairInit
    /\ [][Next]_vars
    /\ WF_vars(StartHandle)
    /\ WF_vars(RetryAttempt)
    /\ WF_vars(RetryWake)
    /\ WF_vars(RetryExhausted)
    /\ WF_vars(DirectCall)
    /\ WF_vars(Respond)
    /\ WF_vars(ConnectionEnds)

\* ----------------------------------------------------------- health routes
HealthPaths == {"/", "/health"}

\* the routes of each application that answer GET / and GET /health
HealthRoutes(v) == IF v = "main" THEN {} ELSE HealthPaths

\* the keys of the JSON object health_check returns
HealthBody(v) ==
    IF v = "factory" THEN {"status", "service", "timestamp"} ELSE {"status", "service"}

\* what the application answers to GET path: the health object, or
\* Starlette's 404 for a path without a route
HealthResponse(v, path) ==
    IF path \in HealthRoutes(v)
    THEN [path |-> path, status |-> 200, fields |-> HealthBody(v)]
    ELSE [path |-> path, status |-> 404, fields |-> {}]

\* GET / or GET /health is served
HealthCheck ==
    /\ LoopFree
    /\ \E path \in HealthPaths : health' = HealthResponse(variant, path)
    /\ UNCHANGED <<variant, live, opened, conn, inbox, stream, http, cur, accepted>>
    /\ UNCHANGED <<backend, call, reply, mode, registry, imp, batch, client, holders, closes, script>>
    /\ UNCHANGED rvars

\* the connections, the posts and the health requests of the clients
NextHealth ==
    \/ OpenSession
    \/ Disconnect
    \/ ConnectionEnds
    \/ PostMessage
    \/ HealthCheck

SpecHealth == Init /\ [][NextHealth]_vars

\* the connections and the posts of the clients, and CloseSession called on
\* ids that are not, or no longer, in the mapping
NextClose ==
    \/ OpenSession
    \/ Disconnect
    \/ ConnectionEnds
    \/ CloseAgain
    \/ PostMessage

SpecClose == Init /\ [][NextClose]_vars

\* ------------------------------------------------------------ memory store
\* self.default_user_id = "cursor_mcp"
DEFAULT_USER_ID == "cursor_mcp"

\* the user_id argument of an adapter operation: not passed (None), or a string
UserArgs == {NoUser, "", "alice"}
Texts == {"X", "I love my job"}
RecordIds == 1..MaxRecords

\* user_id = user_id or self.default_user_id
EffectiveUserId(u) == IF u = NoUser \/ u = "" THEN DEFAULT_USER_ID ELSE u

\* MemoryCategories.categorize, on the texts of the model: "job" scores for
\* work and "love" for preferences; "X" matches no keyword
Categorize(text) ==
    IF Lower(text) = "i love my job" THEN <<"work", "preferences">> ELSE <<"other">>

\* " ".join([f"#{cat}" for cat in categories])
RECURSIVE JoinTags(_)
JoinTags(cats) ==
    IF Len(cats) = 0 THEN ""
    ELSE IF Len(cats) = 1 THEN "#" \o cats[1]
    ELSE "#" \o cats[1] \o " " \o JoinTags(Tail(cats))

\* MemoryCategories.format_with_tags
FormatWithTags(content, cats) ==
    IF cats # <<>> /\ cats # <<"other">>
    THEN content \o " [" \o JoinTags(cats) \o "]"
    ELSE content

\* what reaches the backend as the content: the tools of memory_tools.py
\* pass the tagged text, a direct caller of the adapter its own text
StoredContent(text, tool) ==
    IF tool THEN FormatWithTags(text, Categorize(text)) ELSE text

\* the backend keeps its records by user identifier
FreeId == CHOOSE i \in RecordIds \ {r.id : r \in backend} :
             \A j \in RecordIds \ {r.id : r \in backend} : i <= j
Returned(u) == {[id |-> r.id, memory |-> r.memory] : r \in {x \in backend : x.user = u}}
Failure(tool) == [kind |-> IF tool THEN "error" ELSE "raised", records |-> {}]

\* Mem0ClientWrapper.add_memory, called directly or by MemoryTools.add_memory
\* (which passes no user_id); supplied and by record what the caller passed
AddMemory ==
    /\ Cardinality(backend) < MaxRecords
    /\ \E u \in UserArgs, tool \in BOOLEAN, text \in Texts, ok \in BOOLEAN :
          /\ tool => u = NoUser
          /\ call' = [op |-> "add", passed |-> u, sent |-> EffectiveUserId(u)]
          /\ IF ok
             THEN /\ backend' = backend \cup
                         {[id |-> FreeId, user |-> EffectiveUserId(u),
                           memory |-> StoredContent(text, tool), supplied |-> text, by |-> u]}
                  /\ reply' = [kind |-> "success", records |-> {}]
             ELSE /\ reply' = Failure(tool)
                  /\ UNCHANGED backend
    /\ UNCHANGED <<variant, live, opened, conn, inbox, stream, http, cur, accepted>>
    /\ UNCHANGED xvars
    /\ UNCHANGED rvars

\* Mem0ClientWrapper.get_all_memories / MemoryTools.get_all_memories
GetAllMemories ==
    /\ \E u \in UserArgs, tool \in BOOLEAN, ok \in BOOLEAN :
          /\ tool => u = NoUser
          /\ call' = [op |-> "get_all", passed |-> u, sent |-> EffectiveUserId(u)]
          /\ reply' = IF ok
                      THEN [kind |-> "success", records |-> Returned(EffectiveUserId(u))]
                      ELSE Failure(tool)
    /\ UNCHANGED <<variant, live, opened, conn, inbox, stream, http, cur, accepted, backend>>
    /\ UNCHANGED xvars
    /\ UNCHANGED rvars

\* Mem0ClientWrapper.search_memories / MemoryTools.search_memories, for a
\* query that every record of the user matches
SearchMemories ==
    /\ \E u \in UserArgs, tool \in BOOLEAN, ok \in BOOLEAN :
          /\ tool => u = NoUser
          /\ call' = [op |-> "search", passed |-> u, sent |-> EffectiveUserId(u)]
          /\ reply' = IF ok
                      THEN [kind |-> "success", records |-> Returned(EffectiveUserId(u))]
                      ELSE Failure(tool)
    /\ UNCHANGED <<variant, live, opened, conn, inbox, stream, http, cur, accepted, backend>>
    /\ UNCHANGED xvars
    /\ UNCHANGED rvars

\* Mem0ClientWrapper.update_memory / MemoryTools.update_memory
UpdateMemory ==
    /\ \E u \in UserArgs, tool \in BOOLEAN, text \in Texts, r \in backend, ok \in BOOLEAN :
          /\ tool => u = NoUser
          /\ call' = [op |-> "update", passed |-> u, sent |-> EffectiveUserId(u)]
          /\ IF ok /\ r.user = EffectiveUserId(u)
             THEN /\ backend' = (backend \ {r}) \cup
                         {[r EXCEPT !.memory = StoredContent(text, tool), !.supplied = text]}
                  /\ reply' = [kind |-> "success", records |-> {}]
             ELSE /\ reply' = Failure(tool)
                  /\ UNCHANGED backend
    /\ UNCHANGED <<variant, live, opened, conn, inbox, stream, http, cur, accepted>>
    /\ UNCHANGED xvars
    /\ UNCHANGED rvars

\* Mem0ClientWrapper.delete_memory / MemoryTools.delete_memory
DeleteMemory ==
    /\ \E u \in UserArgs, tool \in BOOLEAN, r \in backend, ok \in BOOLEAN :
          /\ tool => u = NoUser
          /\ call' = [op |-> "delete", passed |-> u, sent |-> EffectiveUserId(u)]
          /\ IF ok /\ r.user = EffectiveUserId(u)
             THEN /\ backend' = backend \ {r}
                  /\ reply' = [kind |-> "success", records |-> {}]
             ELSE /\ reply' = Failure(tool)
                  /\ UNCHANGED backend
    /\ UNCHANGED <<variant, live, opened, conn, inbox, stream, http, cur, accepted>>
    /\ UNCHANGED xvars
    /\ UNCHANGED rvars

\* Mem0ClientWrapper.get_memory_by_id: client.get with the effective user
\* id; a failure is logged and None is returned. Whether the backend hands
\* out a record that belongs to another user is the backend's matter
GetMemoryById ==
    /\ \E u \in UserArgs, r \in backend, ok \in BOOLEAN, handed \in BOOLEAN :
          /\ r.user = EffectiveUserId(u) => handed
          /\ call' = [op |-> "get", passed |-> u, sent |-> EffectiveUserId(u)]
          /\ reply' = IF ok /\ handed
                      THEN [kind |-> "success", records |-> {[id |-> r.id, memory |-> r.memory]}]
                      ELSE [kind |-> "returned_none", records |-> {}]
    /\ UNCHANGED <<variant, live, opened, conn, inbox, stream, http, cur, accepted, backend>>
    /\ UNCHANGED xvars
    /\ UNCHANGED rvars

\* Mem0ClientWrapper.update_project_instructions: client.update_project,
\* a call that names no user; the memories are left as they are
UpdateProjectInstructions ==
    /\ \E ok \in BOOLEAN :
          /\ call' = [op |-> "update_project", passed |-> NoUser, sent |-> NoUser]
          /\ reply' = IF ok THEN [kind |-> "success", records |-> {}] ELSE Failure(FALSE)
    /\ UNCHANGED <<variant, live, opened, conn, inbox, stream, http, cur, accepted, backend>>
    /\ UNCHANGED xvars
    /\ UNCHANGED rvars

\* the adapter and the tools of memory_tools.py over an idle server
InitStore ==
    /\ ServerInit
    /\ variant = "factory"

NextStore ==
    \/ AddMemory
    \/ GetAllMemories
    \/ SearchMemories
    \/ UpdateMemory
    \/ DeleteMemory
    \/ GetMemoryById
    \/ UpdateProjectInstructions

SpecStore == InitStore /\ [][NextStore]_vars

\* ------------------------------------------------------------------ imports
MIN_CONTENT_LEN == 10
MAX_ERROR_LINES == 5

\* the messages of a Chatwise export and the entries of the "memories" array
\* handed to import_memories
Messages ==
    {[role |-> "user", content |-> "Zzz Qqq Xxxx"],
     [role |-> "user", content |-> "zzz qqq xxxx"],
     [role |-> "user", content |-> "I love my job"],
     [role |-> "user", content |-> "  too short   "],
     [role |-> "assistant", content |-> "Zzz Qqq Xxxx"]}
RenderEntries ==
    {[kind |-> "str", content |-> "Zzz Qqq Xxxx"],
     [kind |-> "dict", content |-> "zzz qqq xxxx"],
     [kind |-> "str", content |-> "I love my job"],
     [kind |-> "dict", content |-> ""],
     [kind |-> "other", content |-> ""]}

SeqsUpTo(S, n) == UNION {[1..k -> S] : k \in 0..n}

\* a file that cannot be read or parsed, and the files that can
MissingFile == [ok |-> FALSE, raw |-> <<>>]
ChatwiseFiles == {MissingFile} \cup {[ok |-> TRUE, raw |-> q] : q \in SeqsUpTo(Messages, MaxEntries)}

\* the json_data handed to import_memories: a text that is no JSON, JSON that
\* is no object ("array"), an object without the key "memories" ("nokey"),
\* an object whose "memories" is no array ("notlist"), and the objects with
\* an array of entries
RenderFiles ==
    {[ok |-> FALSE, shape |-> "text", raw |-> <<>>]}
    \cup {[ok |-> TRUE, shape |-> sh, raw |-> <<>>] : sh \in {"array", "nokey", "notlist"}}
    \cup {[ok |-> TRUE, shape |-> "memories", raw |-> q] : q \in SeqsUpTo(RenderEntries, MaxEntries)}

\* the files of a batch
BatchFiles ==
    {MissingFile,
     [ok |-> TRUE, raw |-> <<[role |-> "user", content |-> "I love my job"]>>],
     [ok |-> TRUE, raw |-> <<[role |-> "user", content |-> "3 Errors: seen"]>>],
     [ok |-> TRUE, raw |-> <<[role |-> "user", content |-> "Zzz Qqq Xxxx"],
                             [role |-> "user", content |-> "zzz qqq xxxx"]>>]}

\* what the backend holds when the run starts
InitialStores == {{}, {"Zzz Qqq Xxxx"}, {"I love my job [#work #preferences]"}}

\* str.strip() on the strings of the model
Strip(str) ==
    CASE str = "  too short   " -> "too short"
      [] str = "  Zzz Qqq Xxxx  " -> "Zzz Qqq Xxxx"
      [] str = "  hi  " -> "hi"
      [] str = " Quit " -> "Quit"
      [] OTHER -> str

\* parse_chatwise_export: the user messages whose stripped content is longer
\* than ten characters, with the stripped content
RECURSIVE ParseChatwiseExport(_)
ParseChatwiseExport(msgs) ==
    IF msgs = <<>> THEN <<>>
    ELSE LET m == Head(msgs)
             content == Strip(m.content)
             rest == ParseChatwiseExport(Tail(msgs))
         IN IF m.role = "user" /\ content # "" /\ Len(content) > MIN_CONTENT_LEN
            THEN <<[kind |-> "dict", content |-> content]>> \o rest
            ELSE rest

\* ------------------------------------------------ the text of the summaries
\* a word of a text and, when it is a decimal number, what int() makes of it
Word(s) == [w |-> s, num |-> FALSE, n |-> 0]
Num(k) == [w |-> ToString(k), num |-> TRUE, n |-> k]

\* a text is kept as str.split(':') cuts it, every part as the words
\* str.split() finds in it
NoText == << <<>> >>

\* str(e) of the exceptions the backend client raises: "network",
\* "Errors: quota exceeded" and "7 Errors: busy"
ExceptionTexts ==
    {<< <<Word("network")>> >>,
     << <<Word("Errors")>>, <<Word("quota"), Word("exceeded")>> >>,
     << <<Num(7), Word("Errors")>>, <<Word("busy")>> >>}

\* str(e) of open() on a path that is not there and of json.loads on a text
\* that is no JSON
FileErrorText ==
    << <<Word("[Errno"), Word("2]"), Word("No"), Word("such"), Word("file"), Word("or"),
         Word("directory")>>,
       <<Word("'missing.json'")>> >>
JsonErrorText ==
    << <<Word("Expecting"), Word("value")>>,
       <<Word("line"), Num(1), Word("column"), Num(1), Word("(char"), Word("0)")>> >>

\* the contents of the model as texts
Words(str) ==
    CASE str = "Zzz Qqq Xxxx" -> << <<Word("Zzz"), Word("Qqq"), Word("Xxxx")>> >>
      [] str = "zzz qqq xxxx" -> << <<Word("zzz"), Word("qqq"), Word("xxxx")>> >>
      [] str = "I love my job" -> << <<Word("I"), Word("love"), Word("my"), Word("job")>> >>
      [] str = "3 Errors: seen" -> << <<Num(3), Word("Errors")>>, <<Word("seen")>> >>
      [] OTHER -> << <<Word(str)>> >>

\* a + " " + b
Concat(a, b) == SubSeq(a, 1, Len(a) - 1) \o <<a[Len(a)] \o b[1]>> \o Tail(b)

\* a + "...": the dots run on from the last word
WithDots(a) ==
    LET part == a[Len(a)]
    IN [a EXCEPT ![Len(a)] = IF part = <<>> THEN <<Word("...")>>
                              ELSE [part EXCEPT ![Len(part)] = Word(@.w \o "...")]]

\* content[:50] + "..." (every content of the model is shorter than the 50
\* characters that are kept)
Preview(content) == WithDots(Words(content))

\* a line of a summary: what stands before its first colon, without the
\* indentation and the sign in front, and the text after that colon; a line
\* without a colon has no fields
Line(label, text) == [label |-> label, fields |-> text]

\* the return value of a run that ends before its loop
FailedRun(who, line) ==
    [NoImp EXCEPT !.who = who, !.result = <<line>>, !.pc = "failed"]

\* what the listing of the backend's memories answers: it returns, or raises
Answered == <<>>
ListingAnswers == {Answered} \cup ExceptionTexts

\* import_single / import_memories up to the loop: the file is parsed,
\* import_memories looks at the structure of what it parsed and, with
\* skip_duplicates, the backend's memories are listed and lower-cased
BeginRun(who, file, skipdup, stored, listing) ==
    IF ~file.ok
    THEN FailedRun(who, IF who = "chatwise"
                        THEN Line("Error importing memories", FileErrorText)
                        ELSE Line("Invalid JSON format", JsonErrorText))
    ELSE IF who = "render" /\ file.shape \in {"array", "nokey"}
    THEN FailedRun(who, Line("Invalid format",
                             << <<Word("JSON"), Word("must"), Word("contain"), Word("a"),
                                  Word("'memories'"), Word("array")>> >>))
    ELSE IF who = "render" /\ file.shape = "notlist"
    THEN FailedRun(who, Line("Invalid format",
                             << <<Word("'memories'"), Word("must"), Word("be"), Word("an"),
                                  Word("array")>> >>))
    ELSE IF skipdup /\ listing # Answered
    THEN FailedRun(who, Line("Error importing memories", listing))
    ELSE [NoImp EXCEPT !.who = who,
                       !.entries = IF who = "chatwise" THEN ParseChatwiseExport(file.raw)
                                   ELSE file.raw,
                       !.skipdup = skipdup,
                       !.stored = stored,
                       !.existing = IF skipdup THEN {Lower(m) : m \in stored} ELSE {},
                       !.pc = "loop"]

\* the duplicate test of the loop: chatwise.py tests every entry against
\* existing_contents, main_render.py only with skip_duplicates
IsDuplicate(r, content) ==
    /\ r.who = "chatwise" \/ r.skipdup
    /\ Lower(content) \in r.existing

\* what the backend is given as the content of the memory
ImportedAs(who, content) ==
    IF who = "chatwise" THEN FormatWithTags(content, Categorize(content)) ELSE content

\* skipped += 1; continue
Skipped(r) ==
    [r EXCEPT !.skipped = @ + 1, !.i = @ + 1, !.log = Append(@, "skipped")]

\* the entry of the errors list: chatwise.py writes the start of the content
\* and str(e), main_render.py the number of the entry and the reason
ErrorLine(r, content, why) ==
    IF r.who = "chatwise"
    THEN Line("Failed to import", Concat(Concat(Preview(content), << <<Word("-")>> >>), why))
    ELSE Line("Memory " \o ToString(r.i + 1), why)

\* errors.append(...)
Errored(r, line) ==
    [r EXCEPT !.errors = Append(@, line), !.i = @ + 1, !.log = Append(@, "error")]

\* the call of the backend add came back without raising, with an answer
\* that is empty or not
AddReturned(r, res) ==
    [r EXCEPT !.adds = @ + 1, !.empty = IF res.kind = "empty" THEN @ + 1 ELSE @]

\* imported += 1, and chatwise.py adds the lower-cased content to
\* existing_contents
Imported(r, content) ==
    [r EXCEPT !.imported = @ + 1, !.i = @ + 1,
              !.stored = @ \cup {ImportedAs(r.who, content)},
              !.existing = IF r.who = "chatwise" THEN @ \cup {Lower(content)} ELSE @,
              !.log = Append(@, "imported")]

\* the answers of the backend add: it returns an answer, returns an empty
\* answer (None, an empty list), or raises
AddOutcomes(who) ==
    {[kind |-> "ok", text |-> NoText], [kind |-> "empty", text |-> NoText]}
    \cup {[kind |-> "raise", text |-> t] : t \in ExceptionTexts}

\* the reasons main_render.py gives for an entry it does not add
Reason(what) ==
    CASE what = "format" -> << <<Word("Invalid"), Word("format")>> >>
      [] what = "content" -> << <<Word("Empty"), Word("content")>> >>
      [] OTHER -> << <<Word("Failed"), Word("to"), Word("add")>> >>

\* the labels of the summary lines
SummaryLabel(who, what) ==
    IF who = "chatwise" THEN what
    ELSE CASE what = "Imported" -> "Successfully imported"
           [] what = "Skipped" -> "Skipped (duplicates)"
           [] OTHER -> what

\* what follows the number on a counter line
Unit(who, what) ==
    IF who = "chatwise"
    THEN CASE what = "Imported" -> <<Word("memories")>>
           [] what = "Skipped" -> <<Word("duplicates")>>
           [] OTHER -> <<>>
    ELSE <<Word("memories")>>

CounterLine(who, what, k) == Line(SummaryLabel(who, what), << <<Num(k)>> \o Unit(who, what) >>)

\* "... and N more errors"
MoreLine(k) == Line("... and " \o ToString(k) \o " more errors", <<>>)

\* the summary text, line by line
Summary(r) ==
    <<Line("Import completed", NoText), CounterLine(r.who, "Imported", r.imported)>>
    \o (IF r.skipped > 0 THEN <<CounterLine(r.who, "Skipped", r.skipped)>> ELSE <<>>)
    \o (IF r.errors # <<>>
        THEN <<CounterLine(r.who, "Errors", Len(r.errors))>>
             \o (IF r.who = "chatwise" THEN <<>> ELSE <<Line("Error details", NoText)>>)
             \o SubSeq(r.errors, 1, IF Len(r.errors) < MAX_ERROR_LINES THEN Len(r.errors)
                                    ELSE MAX_ERROR_LINES)
             \o (IF Len(r.errors) > MAX_ERROR_LINES
                 THEN <<MoreLine(Len(r.errors) - MAX_ERROR_LINES)>> ELSE <<>>)
        ELSE <<>>)

\* 'Imported:' in line, for the three words import_batch looks for: the word
\* stands right before a colon of the line
HoldsKey(line, key) ==
    /\ line.fields # <<>>
    /\ \/ line.label = key
       \/ \E j \in 1..(Len(line.fields) - 1) :
             /\ line.fields[j] # <<>>
             /\ line.fields[j][Len(line.fields[j])].w = key

\* the if / elif / elif of import_batch on one line, and
\* int(line.split(':')[1].split()[0]): the first word after the first colon
\* of the line, which raises when there is no such word or it is no number
ParseLine(line) ==
    LET key == IF HoldsKey(line, "Imported") THEN "Imported"
               ELSE IF HoldsKey(line, "Skipped") THEN "Skipped"
               ELSE IF HoldsKey(line, "Errors") THEN "Errors"
               ELSE "none"
        first == IF key = "none" \/ line.fields[1] = <<>> THEN Word("") ELSE line.fields[1][1]
    IN [key |-> key, ok |-> first.num, n |-> first.n]

\* for line in lines: what is added to the total of the key, up to the line
\* at which int() raises
RECURSIVE ParseCount(_, _)
ParseCount(lines, key) ==
    IF lines = <<>> THEN 0
    ELSE LET p == ParseLine(Head(lines))
         IN IF p.key = "none" THEN ParseCount(Tail(lines), key)
            ELSE IF ~p.ok THEN 0
            ELSE (IF p.key = key THEN p.n ELSE 0) + ParseCount(Tail(lines), key)

\* the parsing of the result raises
ParseRaises(lines) ==
    \E k \in DOMAIN lines : ParseLine(lines[k]).key # "none" /\ ~ParseLine(lines[k]).ok

\* import_batch marks a file in its except branch, which covers the call of
\* import_single and the parsing of its result; import_single returns a
\* string on every path
ImportSingleRaises(run) == FALSE
FileMark(run) ==
    IF ImportSingleRaises(run) \/ ParseRaises(run.result) THEN "Failed" ELSE "Success"

\* the rest of the loop body after the call of the backend add:
\* import_single counts the entry as imported when the call returned,
\* import_memories when it returned an answer that is not empty (an empty
\* answer is the error "Failed to add"); a raising call is an error in both
AfterAdd_RaiseImported(r, content, res) ==
    CASE res.kind = "ok" -> Imported(AddReturned(r, res), content)
      [] res.kind = "empty" ->
           IF r.who = "chatwise" THEN Imported(AddReturned(r, res), content)
           ELSE Errored(AddReturned(r, res), ErrorLine(r, content, Reason("add")))
      [] OTHER -> Imported(r, content)
AfterAdd(r, content, res) ==
    CASE res.kind = "ok" -> Imported(AddReturned(r, res), content)
      [] res.kind = "empty" ->
           IF r.who = "chatwise" THEN Imported(AddReturned(r, res), content)
           ELSE Errored(AddReturned(r, res), ErrorLine(r, content, Reason("add")))
      [] OTHER -> Errored(r, ErrorLine(r, content, res.text))

OutsideImport ==
    /\ UNCHANGED <<variant, live, opened, conn, inbox, stream, http, cur, accepted>>
    /\ UNCHANGED <<backend, call, reply, mode, registry, health, client, holders, closes, script>>
    /\ UNCHANGED rvars

ImporterOf(v) == IF v = "render" THEN "render" ELSE "chatwise"

\* import_single(file, skip_duplicates) / import_memories(json, skip_duplicates)
\* is called
StartSingle ==
    /\ imp.pc = "idle" /\ batch.pc = "idle" /\ script.pc = "idle"
    /\ \E file \in (IF variant = "render" THEN RenderFiles ELSE ChatwiseFiles),
          skipdup \in BOOLEAN, stored \in InitialStores, listing \in ListingAnswers :
          imp' = BeginRun(ImporterOf(variant), file, skipdup, stored, listing)
    /\ UNCHANGED batch
    /\ OutsideImport

\* one iteration of the import loop
ImportEntry ==
    /\ imp.pc = "loop"
    /\ imp.i < Len(imp.entries)
    /\ LET e == imp.entries[imp.i + 1] IN
          IF imp.who = "render" /\ e.kind = "other"
          THEN imp' = Errored(imp, ErrorLine(imp, e.content, Reason("format")))
          ELSE IF imp.who = "render" /\ e.content = ""
          THEN imp' = Errored(imp, ErrorLine(imp, e.content, Reason("content")))
          ELSE IF IsDuplicate(imp, e.content)
          THEN imp' = Skipped(imp)
          ELSE \E res \in AddOutcomes(imp.who) : imp' = AfterAdd(imp, e.content, res)
    /\ UNCHANGED batch
    /\ OutsideImport

\* the loop is over: the summary is returned
ImportFinish ==
    /\ imp.pc = "loop"
    /\ imp.i = Len(imp.entries)
    /\ imp' = [imp EXCEPT !.result = Summary(imp), !.pc = "done"]
    /\ UNCHANGED batch
    /\ OutsideImport

\* import_batch(file_paths, skip_duplicates) is called
StartBatch ==
    /\ imp.pc = "idle" /\ batch.pc = "idle" /\ script.pc = "idle"
    /\ variant = "factory"
    /\ \E files \in SeqsUpTo(BatchFiles, MaxFiles), skipdup \in BOOLEAN :
          batch' = [NoBatch EXCEPT !.files = files, !.skipdup = skipdup, !.pc = "run"]
    /\ UNCHANGED imp
    /\ OutsideImport

\* result = self.import_single(file_path, skip_duplicates)
BatchNextFile ==
    /\ batch.pc = "run" /\ imp.pc = "idle"
    /\ batch.k < Len(batch.files)
    /\ \E listing \in ListingAnswers :
          imp' = BeginRun("chatwise", batch.files[batch.k + 1], batch.skipdup, batch.stored,
                          listing)
    /\ UNCHANGED batch
    /\ OutsideImport

\* the result of the file is parsed into the totals and the file is marked
BatchCollect ==
    /\ batch.pc = "run"
    /\ imp.pc \in {"done", "failed"}
    /\ batch' = [batch EXCEPT
                    !.imported = @ + ParseCount(imp.result, "Imported"),
                    !.skipped = @ + ParseCount(imp.result, "Skipped"),
                    !.errors = @ + ParseCount(imp.result, "Errors"),
                    !.stored = IF imp.pc = "done" THEN imp.stored ELSE @,
                    !.k = @ + 1,
                    !.details = Append(@, [mark |-> FileMark(imp), run |-> imp])]
    /\ imp' = NoImp
    /\ OutsideImport

\* every file has been gone through: the batch summary is returned
BatchFinish ==
    /\ batch.pc = "run" /\ imp.pc = "idle"
    /\ batch.k = Len(batch.files)
    /\ batch' = [batch EXCEPT !.pc = "done"]
    /\ UNCHANGED imp
    /\ OutsideImport

\* -------------------------------------------------- the stand-alone scripts
\* import_chatwise.py, batch_import_chatwise.py and add_memory_demo.py. The
\* labels, the category names and the messages of the scripts are Chinese;
\* they are written here in English, and the contents of the model are chosen
\* so that every test on a length falls on the side on which it falls for
\* the Chinese text
Scripts == {"import_chatwise", "batch_import_chatwise", "add_memory_demo"}

\* the lengths the scripts test: a user message is taken when it is longer
\* than 5 (import_chatwise.py) or 10 (batch_import_chatwise.py) characters,
\* an assistant reply when longer than 10 and added when longer than 100, and
\* a cleaned memory shorter than 10 (15 in the batch script) is not sent
MinLen(who, what) ==
    CASE what = "user" -> IF who = "batch_import_chatwise" THEN 10 ELSE 5
      [] what = "assistant" -> 10
      [] what = "knowledge" -> 100
      [] OTHER -> IF who = "batch_import_chatwise" THEN 15 ELSE 10

LongReply ==
    "Table tennis is played on a hard table divided by a net, and the players hit a light ball back and forth with small rackets."

\* the chat-*.json files of the export folder. ok: the file holds JSON;
\* json: the type of what it holds (an object, "[]", "null"); haskey: the
\* object has the key "messages", and null says that its value is null;
\* isstr: the content of the message is a string (the content 5 is not).
\* "wo xihuan" stands for a short message with the words for "I" and "like"
ScriptChats ==
    {[ok |-> FALSE, json |-> "none", haskey |-> FALSE, null |-> FALSE, title |-> "",
      model |-> "", createdAt |-> "", messages |-> <<>>],
     [ok |-> TRUE, json |-> "list", haskey |-> FALSE, null |-> FALSE, title |-> "",
      model |-> "", createdAt |-> "", messages |-> <<>>],
     [ok |-> TRUE, json |-> "NoneType", haskey |-> FALSE, null |-> FALSE, title |-> "",
      model |-> "", createdAt |-> "", messages |-> <<>>],
     [ok |-> TRUE, json |-> "dict", haskey |-> FALSE, null |-> FALSE, title |-> "",
      model |-> "", createdAt |-> "", messages |-> <<>>],
     [ok |-> TRUE, json |-> "dict", haskey |-> TRUE, null |-> TRUE, title |-> "",
      model |-> "", createdAt |-> "", messages |-> <<>>],
     [ok |-> TRUE, json |-> "dict", haskey |-> TRUE, null |-> FALSE, title |-> "New Chat",
      model |-> "", createdAt |-> "",
      messages |-> <<[role |-> "user", content |-> "I love my job", isstr |-> TRUE],
                     [role |-> "user", content |-> "wo xihuan", isstr |-> TRUE],
                     [role |-> "assistant", content |-> "Zzz Qqq Xxxx", isstr |-> TRUE]>>],
     [ok |-> TRUE, json |-> "dict", haskey |-> TRUE, null |-> FALSE, title |-> "Trip",
      model |-> "gpt-4o", createdAt |-> "",
      messages |-> <<[role |-> "user", content |-> "  hi  ", isstr |-> TRUE],
                     [role |-> "user", content |-> "", isstr |-> TRUE],
                     [role |-> "user", content |-> "I **love** my  job", isstr |-> TRUE],
                     [role |-> "assistant", content |-> LongReply, isstr |-> TRUE]>>],
     [ok |-> TRUE, json |-> "dict", haskey |-> TRUE, null |-> FALSE, title |-> "Notes",
      model |-> "", createdAt |-> "",
      messages |-> <<[role |-> "user", content |-> "I love my job", isstr |-> TRUE],
                     [role |-> "assistant", content |-> "5", isstr |-> FALSE]>>]}

\* " | ".join(parts)
RECURSIVE JoinBar(_)
JoinBar(parts) ==
    IF Len(parts) = 0 THEN ""
    ELSE IF Len(parts) = 1 THEN parts[1]
    ELSE parts[1] \o " | " \o JoinBar(Tail(parts))

\* load_chat_files: the chats that load, in the order of the glob, and one
\* entry of self.errors for every file that does not, with the text json.load
\* raises on a file that is no JSON
RECURSIVE LoadErrors(_, _)
LoadErrors(files, k) ==
    IF files = <<>> THEN <<>>
    ELSE (IF Head(files).ok THEN <<>>
          ELSE <<"load failed chat-" \o ToString(k)
                    \o ".json: Expecting value: line 1 column 1 (char 0)">>)
         \o LoadErrors(Tail(files), k + 1)
LoadChatFiles(files) ==
    [chats |-> SelectSeq(files, LAMBDA f : f.ok), errors |-> LoadErrors(files, 1)]

\* extract_user_messages / extract_assistant_messages: the stripped contents
\* of the messages of the role that have a content and are long enough
RECURSIVE ExtractMessages(_, _, _)
ExtractMessages(who, role, msgs) ==
    IF msgs = <<>> THEN <<>>
    ELSE LET m == Head(msgs)
             content == Strip(m.content)
             rest == ExtractMessages(who, role, Tail(msgs))
         IN IF m.role = role /\ m.isstr /\ m.content # "" /\ content # ""
               /\ Len(content) > MinLen(who, role)
            THEN <<content>> \o rest
            ELSE rest

\* what the body of the loop raises on a chat, and where: nothing catches
\* it, so the script ends there. A chat that is no object has no get()
\* (extract_conversation_context), "messages": null cannot be iterated and a
\* content that is no string has no strip() (extract_user_messages): these
\* are raised before a memory of the chat is added. import_chatwise.py reads
\* the assistant replies when the user messages have been added, so a reply
\* whose content is no string raises after them; the batch script never
\* reads the replies
ChatRaises(who, chat) ==
    LET bad(role) == \E j \in DOMAIN chat.messages :
                        chat.messages[j].role = role /\ ~chat.messages[j].isstr
        strip == "AttributeError: 'int' object has no attribute 'strip'"
    IN IF chat.json # "dict"
       THEN [at |-> "before",
             text |-> "AttributeError: '" \o chat.json \o "' object has no attribute 'get'"]
       ELSE IF chat.haskey /\ chat.null
       THEN [at |-> "before", text |-> "TypeError: 'NoneType' object is not iterable"]
       ELSE IF chat.haskey /\ bad("user") THEN [at |-> "before", text |-> strip]
       ELSE IF who = "import_chatwise" /\ chat.haskey /\ bad("assistant")
       THEN [at |-> "after", text |-> strip]
       ELSE [at |-> "none", text |-> ""]

\* extract_conversation_context: the title unless it is "New Chat", the
\* model and the creation time, whichever the chat has
ExtractConversationContext(chat) ==
    LET parts == (IF chat.title # "" /\ chat.title # "New Chat"
                  THEN <<"topic: " \o chat.title>> ELSE <<>>)
                 \o (IF chat.model # "" THEN <<"model: " \o chat.model>> ELSE <<>>)
                 \o (IF chat.createdAt # "" THEN <<"time: " \o chat.createdAt>> ELSE <<>>)
    IN IF parts # <<>> THEN JoinBar(parts) ELSE "Chatwise chat log"

\* categorize_content, on the messages of the model: a message with a word
\* for the speaker and a word for liking is a personal preference, a message
\* with none of the keywords of the script is other information
CategorizeContent(content) ==
    IF Lower(content) = "wo xihuan" THEN "preference" ELSE "other"

\* clean_content on the memories of the model: runs of spaces become one
\* space, the marks of bold, italic and code are taken out, the ends stripped
CleanContent(str) ==
    IF str = "[other] | context: topic: Trip | model: gpt-4o | I **love** my  job"
    THEN "[other] | context: topic: Trip | model: gpt-4o | I love my job"
    ELSE str

\* the calls of add_memory process_chatwise_export makes for one chat: one
\* for every user message, with its category, and in import_chatwise.py one
\* for every assistant reply of more than 100 characters, as knowledge (none
\* when reading the replies raises)
ScriptCalls(who, chat) ==
    LET context == ExtractConversationContext(chat)
        msgs == IF chat.haskey THEN chat.messages ELSE <<>>
        users == ExtractMessages(who, "user", msgs)
        replies == IF who = "import_chatwise" /\ ChatRaises(who, chat).at = "none"
                   THEN SelectSeq(ExtractMessages(who, "assistant", msgs),
                                  LAMBDA m : Len(m) > MinLen(who, "knowledge"))
                   ELSE <<>>
    IN [j \in 1..Len(users) |->
           [content |-> users[j], category |-> CategorizeContent(users[j]),
            context |-> context]]
       \o [j \in 1..Len(replies) |->
              [content |-> replies[j], category |-> "knowledge", context |-> context]]

\* add_memory of the scripts: the memory is put together and cleaned; one
\* that is too short is not sent (and counted as skipped by the batch script
\* only), the others are given to mem0_client.add, which returns or raises
ScriptAddOutcomes == {"ok", "network"}
ScriptAddMemory(r, c, res) ==
    LET full_memory == JoinBar((IF c.category # "" THEN <<"[" \o c.category \o "]">> ELSE <<>>)
                               \o (IF c.context # "" THEN <<"context: " \o c.context>> ELSE <<>>)
                               \o <<c.content>>)
        cleaned_memory == CleanContent(full_memory)
    IN IF Len(cleaned_memory) < MinLen(r.who, "memory")
       THEN [r EXCEPT !.skipped = IF r.who = "batch_import_chatwise" THEN @ + 1 ELSE @]
       ELSE IF res = "ok"
       THEN [r EXCEPT !.memories_added = @ + 1, !.sent = Append(@, cleaned_memory)]
       ELSE [r EXCEPT !.errors = Append(@, "add failed: " \o res)]

\* what process_chatwise_export prints when the loop is over
ScriptSummary(r) ==
    <<"import finished", "memories added: " \o ToString(r.memories_added)>>
    \o (IF r.who = "batch_import_chatwise"
        THEN <<"skipped: " \o ToString(r.skipped),
               "chats processed: " \o ToString(r.processed_chats) \o "/"
                  \o ToString(Len(r.chats)),
               "messages: " \o ToString(r.total_messages)>>
        ELSE <<>>)
    \o (IF r.errors # <<>>
        THEN <<"errors: " \o ToString(Len(r.errors)), "error details">>
             \o [j \in 1..(IF Len(r.errors) < MAX_ERROR_LINES THEN Len(r.errors)
                            ELSE MAX_ERROR_LINES) |-> "- " \o r.errors[j]]
             \o (IF Len(r.errors) > MAX_ERROR_LINES
                 THEN <<"... " \o ToString(Len(r.errors) - MAX_ERROR_LINES) \o " more errors">>
                 ELSE <<>>)
        ELSE <<>>)

\* the end of a run before the loop: what was printed last
ScriptEnds(who, line) == [NoScript EXCEPT !.who = who, !.out = <<line>>, !.pc = "done"]

\* main() and process_chatwise_export up to the loop: the module builds its
\* MemoryClient, main() lists one memory to see that the backend answers
\* (add_memory_demo.py goes on to its sample memories from there), takes the
\* export path (the default one, or what the user types), the batch script
\* asks whether to go on, and the chat files are loaded
RunMain(who, link, path, answer, files) ==
    IF link = "no client"
    THEN [NoScript EXCEPT !.who = who, !.raised = "MemoryClient()", !.pc = "crashed"]
    ELSE IF link = "unreachable" THEN ScriptEnds(who, "connection failed: network")
    ELSE IF who = "add_memory_demo" THEN [NoScript EXCEPT !.who = who, !.pc = "samples"]
    ELSE IF path = "" THEN ScriptEnds(who, "no export path given")
    ELSE IF who = "batch_import_chatwise" /\ answer \notin {"y", "yes"}
    THEN ScriptEnds(who, "import cancelled")
    ELSE IF path # "export" THEN ScriptEnds(who, "export path does not exist: " \o path)
    ELSE LET loaded == LoadChatFiles(files)
         IN IF loaded.chats = <<>>
            THEN [ScriptEnds(who, "no chat files found") EXCEPT !.errors = loaded.errors]
            ELSE [NoScript EXCEPT !.who = who, !.chats = loaded.chats,
                                  !.errors = loaded.errors, !.pc = "chats"]

OutsideScripts ==
    /\ UNCHANGED <<variant, live, opened, conn, inbox, stream, http, cur, accepted>>
    /\ UNCHANGED <<backend, call, reply, mode, registry, health, imp, batch, client, holders,
                   closes>>
    /\ UNCHANGED rvars

\* python import_chatwise.py / batch_import_chatwise.py / add_memory_demo.py
\* is started
StartScript ==
    /\ script.pc = "idle" /\ imp.pc = "idle" /\ batch.pc = "idle"
    /\ \E who \in Scripts, link \in {"no client", "unreachable", "ok"},
          path \in {"", "nowhere", "export"}, answer \in {"y", "n"},
          files \in SeqsUpTo(ScriptChats, MaxFiles) :
          script' = RunMain(who, link, path, answer, files)
    /\ OutsideScripts

\* the loop of process_chatwise_export comes to its next chat: the context
\* and the messages are extracted, and the batch script counts the chat and
\* its messages when it has user messages. When this raises, or when the
\* chat has no user message to add and reading its replies raises, the
\* script ends with that exception and prints no statistics
ScriptChat ==
    /\ script.pc = "chats"
    /\ script.queue = <<>>
    /\ script.k < Len(script.chats)
    /\ LET chat == script.chats[script.k + 1]
           raises == ChatRaises(script.who, chat)
           calls == IF raises.at = "before" THEN <<>> ELSE ScriptCalls(script.who, chat)
           counted == script.who = "batch_import_chatwise" /\ calls # <<>>
       IN script' = IF raises.at = "before" \/ (raises.at = "after" /\ calls = <<>>)
                    THEN [script EXCEPT !.k = @ + 1, !.raised = raises.text,
                                        !.pc = "crashed"]
                    ELSE [script EXCEPT !.k = @ + 1, !.queue = calls,
                                        !.raises = raises.text,
                                        !.processed_chats = IF counted THEN @ + 1 ELSE @,
                                        !.total_messages =
                                            IF counted THEN @ + Len(calls) ELSE @]
    /\ OutsideScripts

\* self.add_memory(message, category, context) for the next message; after
\* the last user message of a chat import_chatwise.py reads the replies,
\* which is where a chat with a reply that is no string ends the script
ScriptAdd ==
    /\ script.pc = "chats"
    /\ script.queue # <<>>
    /\ \E res \in ScriptAddOutcomes :
          LET r == [ScriptAddMemory(script, Head(script.queue), res) EXCEPT !.queue = Tail(@)]
          IN script' = IF r.queue = <<>> /\ r.raises # ""
                       THEN [r EXCEPT !.raises = "", !.raised = r.raises, !.pc = "crashed"]
                       ELSE r
    /\ OutsideScripts

\* every chat has been gone through: the statistics are printed
ScriptFinish ==
    /\ script.pc = "chats"
    /\ script.queue = <<>>
    /\ script.k = Len(script.chats)
    /\ script' = [script EXCEPT !.out = ScriptSummary(script), !.pc = "done"]
    /\ OutsideScripts

\* add_memory_demo.py: the seven sample memories of add_memory_demo and the
\* five queries of search_memory_demo
DemoMemories ==
    <<"My name is Zhang San and I like americano",
      "My birthday is on March 15",
      "I speak Chinese and English",
      "My friend Li Si works in Beijing",
      "I want to learn the guitar this year",
      "Next week I give a talk about AI",
      "The Mediterranean diet is good for the health">>
DemoQueries ==
    <<"what do I like to drink", "my birthday", "which languages do I speak",
      "my friend Li Si", "my goals">>

\* what the user types at the prompt of interactive_add_memory
TypedLines == {"remember this", "", " Quit "}

\* add_memory_demo: the next sample memory is given to mem0_client.add as it
\* is; an exception is printed and the loop goes on. script.out holds what
\* the step printed about its result
DemoAdd ==
    /\ script.pc = "samples"
    /\ \E res \in ScriptAddOutcomes :
          LET i == script.k + 1
              memory == DemoMemories[i]
              last == i = Len(DemoMemories)
          IN script' = [script EXCEPT
                           !.k = IF last THEN 0 ELSE i,
                           !.sent = IF res = "ok" THEN Append(@, memory) ELSE @,
                           !.out = IF res = "ok"
                                   THEN <<ToString(i) \o ". added: " \o memory \o "...">>
                                   ELSE <<ToString(i) \o ". add failed: " \o res>>,
                           !.pc = IF last THEN "searches" ELSE "samples"]
    /\ OutsideScripts

\* search_memory_demo (one query after the other) and get_all_memories_demo:
\* the backend is asked and what it answers is printed, the first results
\* or that there are none; an exception is printed and the script goes on
DemoRead ==
    /\ script.pc \in {"searches", "listing"}
    /\ \E res \in ScriptAddOutcomes, n \in 0..Len(DemoMemories) :
          LET found == IF n = 0 THEN <<>> ELSE <<"1. " \o DemoMemories[n] \o "...">>
              last == script.k + 1 = Len(DemoQueries)
          IN script' =
                IF script.pc = "searches"
                THEN [script EXCEPT
                         !.k = IF last THEN 0 ELSE @ + 1,
                         !.out = <<"search: '" \o DemoQueries[script.k + 1] \o "'">>
                                 \o (IF res # "ok" THEN <<"search failed: " \o res>>
                                     ELSE IF n = 0 THEN <<"no memory found">>
                                     ELSE found),
                         !.pc = IF last THEN "listing" ELSE "searches"]
                ELSE [script EXCEPT
                         !.out = IF res # "ok" THEN <<"listing failed: " \o res>>
                                 ELSE IF n = 0 THEN <<"no memories found">>
                                 ELSE <<"memories found: 1">> \o found,
                         !.pc = "typing"]
    /\ OutsideScripts

\* interactive_add_memory: one turn of the loop. The line is stripped; quit
\* or exit in any case, or an interrupt, ends the script; an empty line is
\* asked again; anything else is given to mem0_client.add as it is, and an
\* exception is printed and the loop goes on
DemoType ==
    /\ script.pc = "typing"
    /\ \/ script' = [script EXCEPT !.out = <<"goodbye">>, !.pc = "done"]
       \/ \E line \in TypedLines, res \in ScriptAddOutcomes :
             LET user_input == Strip(line)
             IN IF Lower(user_input) \in {"quit", "exit"}
                THEN script' = [script EXCEPT !.out = <<"goodbye">>, !.pc = "done"]
                ELSE /\ script.k < MaxLines
                     /\ script' =
                           IF user_input = ""
                           THEN [script EXCEPT !.k = @ + 1, !.out = <<"please type something">>]
                           ELSE IF res = "ok"
                           THEN [script EXCEPT !.k = @ + 1, !.sent = Append(@, user_input),
                                               !.out = <<"added to memory">>]
                           ELSE [script EXCEPT !.k = @ + 1, !.out = <<"add failed: " \o res>>]
    /\ OutsideScripts

InitImport ==
    /\ ServerInit
    /\ variant \in {"factory", "render"}

NextImport ==
    \/ StartSingle
    \/ ImportEntry
    \/ ImportFinish
    \/ StartBatch
    \/ BatchNextFile
    \/ BatchCollect
    \/ BatchFinish
    \/ StartScript
    \/ ScriptChat
    \/ ScriptAdd
    \/ ScriptFinish
    \/ DemoAdd
    \/ DemoRead
    \/ DemoType

SpecImport == InitImport /\ [][NextImport]_vars

\* ------------------------------------------------------------ shared client
MaxClientCalls == 5

\* if _client_instance is None
NeedsConstruction_Always(inst) == TRUE
NeedsConstruction(inst) == inst = NoWrapper

\* Mem0ClientWrapper(): the n-th wrapper built, with its default user id
NewWrapper(n) == [id |-> n, default_user_id |-> DEFAULT_USER_ID]

\* get_client() called from the constructor of a component: the wrapper is
\* built when the global is unset (MemoryClient() may raise, and then the
\* assignment does not happen), and the global is returned
GetClient ==
    /\ client.calls < MaxClientCalls
    /\ \E caller \in Callers, built_ok \in BOOLEAN :
          IF NeedsConstruction(client.instance)
          THEN IF built_ok
               THEN /\ client' = [client EXCEPT !.instance = NewWrapper(client.built + 1),
                                                !.built = @ + 1, !.calls = @ + 1,
                                                !.last = caller]
                    /\ holders' = [holders EXCEPT ![caller] = NewWrapper(client.built + 1)]
               ELSE /\ client' = [client EXCEPT !.failed = @ + 1, !.calls = @ + 1,
                                                !.last = caller]
                    /\ UNCHANGED holders
          ELSE /\ client' = [client EXCEPT !.calls = @ + 1, !.last = caller]
               /\ holders' = [holders EXCEPT ![caller] = client.instance]
    /\ UNCHANGED <<variant, live, opened, conn, inbox, stream, http, cur, accepted>>
    /\ UNCHANGED <<backend, call, reply, mode, registry, health, imp, batch, closes, script>>
    /\ UNCHANGED rvars

InitClient == ServerInit /\ variant = "factory"

SpecClient == InitClient /\ [][GetClient]_vars

\* ------------------------------------------------ properties of the retry
NumFailures == Cardinality({i \in DOMAIN trace : trace[i] # "ok"})
MinOf(a, b) == IF a < b THEN a ELSE b
MaxOf(a, b) == IF a > b THEN a ELSE b

\* C1: a call that fails k < N times and then succeeds is invoked exactly
\* k+1 times: the success is the last invocation, it is what the caller gets
\* (one outcome), the call is never invoked again after it, and
\* retry_operation never gives up before N invocations have failed.
C1_SuccessAfterFailures ==
    /\ \A i \in DOMAIN trace :
          trace[i] = "ok" =>
             /\ i = Len(trace)
             /\ rpc = "returned"
             /\ outcome = [kind |-> "ok", at |-> i]
    /\ rpc = "returned" =>
          /\ Len(trace) >= 1
          /\ trace[Len(trace)] = "ok"
          /\ Len(trace) <= max_retries
          /\ NumFailures = Len(trace) - 1
    /\ rpc = "raised" => NumFailures >= max_retries

C1_Witness ==
    /\ cur = NoReq
    /\ rpc = "returned"
    /\ max_retries = 3
    /\ Len(trace) = 3
    /\ trace[1] # "ok" /\ trace[2] # "ok"
    /\ outcome = [kind |-> "ok", at |-> 3]

\* C2: with max_retries = N >= 1, a call that always fails is invoked exactly
\* N times before anything is raised, and the exception raised is the one of
\* the N-th invocation; no earlier failure is surfaced.
C2_ErrorAfterExactlyN ==
    max_retries >= 1 =>
       /\ rpc = "raised" =>
             /\ Len(trace) = max_retries
             /\ NumFailures = max_retries
             /\ outcome = [kind |-> trace[max_retries], at |-> max_retries]
       /\ outcome.kind \in ErrorKinds => (rpc = "raised" /\ outcome.at = max_retries)
       /\ (NumFailures = Len(trace) /\ Len(trace) < max_retries) => outcome = NoneVal

C2_Witness ==
    /\ cur = NoReq
    /\ rpc = "raised"
    /\ max_retries = 3
    /\ Len(trace) = 3
    /\ trace[1] = "network" /\ trace[3] = "malformed"
    /\ outcome = [kind |-> "malformed", at |-> 3]

\* C3 as stated: a malformed-argument error ends the call at once: the
\* invocation that raised it is the last one, no sleep follows it, and it is
\* the error the caller gets.
C3_MalformedNotRetried ==
    \A i \in DOMAIN trace :
       trace[i] = "malformed" =>
          /\ i = Len(trace)
          /\ Len(sleeps) <= i - 1
          /\ Finished => (rpc = "raised" /\ outcome = [kind |-> "malformed", at |-> i])

\* C3 amended: a malformed-argument error is retried like every other
\* exception: raised by invocation i < N it is followed by the sleep
\* D * 2^(i-1) and by another invocation, and it reaches the caller only
\* when it is raised by the N-th invocation (and then it does).
C3_MalformedRetried ==
    \A i \in DOMAIN trace :
       trace[i] = "malformed" =>
          /\ i < max_retries =>
                /\ Len(sleeps) >= i
                /\ sleeps[i] = retry_delay * Pow2(i - 1)
                /\ Finished => Len(trace) > i
                /\ outcome # [kind |-> "malformed", at |-> i]
          /\ (i = max_retries /\ rpc = "raised") => outcome = [kind |-> "malformed", at |-> i]

C3_Witness ==
    /\ cur = NoReq
    /\ rpc = "returned"
    /\ max_retries = 3
    /\ trace = <<"malformed", "malformed", "ok">>
    /\ sleeps = <<retry_delay, 2 * retry_delay>>

\* C4: the i-th sleep is D * 2^(i-1) (the first is D, each next one twice
\* the one before), a sleep follows each of the first N-1 failed invocations
\* and none follows the N-th: an always-failing call sleeps N-1 times.
C4_ExponentialBackoff ==
    /\ \A i \in DOMAIN sleeps :
          /\ i = 1 => sleeps[i] = retry_delay
          /\ i > 1 => sleeps[i] = 2 * sleeps[i - 1]
    /\ Len(sleeps) = MinOf(NumFailures, MaxOf(max_retries - 1, 0))
    /\ rpc = "sleeping" => Len(sleeps) = Len(trace)
    /\ (rpc = "raised" /\ max_retries >= 1) => Len(sleeps) = max_retries - 1

C4_Witness ==
    /\ cur = NoReq
    /\ rpc = "raised"
    /\ max_retries = 4
    /\ retry_delay = DEFAULT_RETRY_DELAY
    /\ sleeps = <<1000, 2000, 4000>>
    /\ Len(trace) = 4

\* ------------------------------------------------ properties of the tools
\* C5 as stated: in every server file, every tool's backend call goes through
\* retry_operation with 3 attempts and initial delay 1s: it is never a direct
\* call, and when it fails for good it has been invoked 3 times with sleeps
\* of 1s and 2s.
C5_UniformPolicyEverywhere ==
    cur.method \in AllTools =>
       /\ rpc # "direct"
       /\ max_retries = DEFAULT_MAX_RETRIES
       /\ retry_delay = DEFAULT_RETRY_DELAY
       /\ rpc = "raised" => (Len(trace) = 3 /\ sleeps = <<1000, 2000>>)

\* C5 amended: the policy (3 attempts, initial delay 1s) holds for every
\* tool of the server built by ServerFactory, whose tools all go through
\* Mem0ClientWrapper, and for the add/get_all/search/update/delete tools of
\* main_render.py.
C5_UniformPolicyAdapter ==
    (variant = "factory" /\ cur.method \in AllTools)
       \/ (variant = "render" /\ cur.method \in FiveTools) =>
       /\ rpc # "direct"
       /\ max_retries = DEFAULT_MAX_RETRIES
       /\ retry_delay = DEFAULT_RETRY_DELAY
       /\ rpc = "raised" => (Len(trace) = 3 /\ sleeps = <<1000, 2000>>)

C5_Witness ==
    /\ variant = "factory"
    /\ cur.method = "delete_memory"
    /\ rpc = "raised"
    /\ Len(trace) = 3
    /\ sleeps = <<1000, 2000>>

\* -------------------------------------------- properties of the transport
\* C6: a POST to /messages/ with the denylisted session id is answered by the
\* guard with 410, error "session_expired" and a reconnect_url, and does not
\* reach the transport.
C6_StaleSessionGets410 ==
    http.sid = StaleSessionId =>
       /\ http.status = 410
       /\ http.error = "session_expired"
       /\ http.reconnect
       /\ http.by = "guard"

\* C7: the guard runs before the routing: the denylisted session id is never
\* answered by the transport's session lookup, so never with 404.
C7_GuardRunsFirst ==
    ~(http.sid = StaleSessionId /\ (http.status = 404 \/ http.by = "transport"))

\* C8: a POST for a session id that is not in the live mapping (and is not
\* the denylisted one) is answered 404, and that step queues no request,
\* starts no tool and writes no event on any stream.
C8_UnknownSession404 ==
    [][(/\ http' # NoHttp
        /\ http'.sid # StaleSessionId
        /\ http'.sid \notin live)
       => (/\ http'.status = 404
           /\ UNCHANGED <<stream, inbox, accepted, cur, rpc, trace, live>>)]_vars

C8_Witness ==
    /\ http.status = 404
    /\ http.sid \in opened \ live
    /\ conn[http.sid] = "closed"
    /\ \E t \in live : conn[t] = "open" /\ Len(stream[t]) >= 1

\* C9: every event on a session's stream belongs to that session: a response
\* is written only on the stream of the session that accepted its request.
C9_NoCrossSessionLeak ==
    \A s \in SessionIds : \A i \in DOMAIN stream[s] :
       /\ stream[s][i].session = s
       /\ stream[s][i].type = "response" =>
             /\ stream[s][i].id \in DOMAIN accepted
             /\ accepted[stream[s][i].id] = s

C9_Witness ==
    \E s \in SessionIds, t \in SessionIds :
       /\ s # t
       /\ \E i \in DOMAIN stream[s] : stream[s][i].type = "response"
       /\ \E j \in DOMAIN stream[t] : stream[t][j].type = "response"

Answers(s, r) ==
    {i \in DOMAIN stream[s] : stream[s][i].type = "response" /\ stream[s][i].id = r}
Pending(s, r) ==
    \/ (cur.session = s /\ cur.id = r)
    \/ \E i \in DOMAIN inbox[s] : inbox[s][i].id = r

\* C10: a request accepted on a session gets at most one response, none while
\* it is still queued or being handled, exactly one once it has been handled
\* on a connection that is still open, and it is eventually answered unless
\* the session's connection goes away.
C10_ExactlyOneResponse ==
    /\ [](\A r \in DOMAIN accepted :
            /\ Cardinality(Answers(accepted[r], r)) <= 1
            /\ Pending(accepted[r], r) => Answers(accepted[r], r) = {}
            /\ (conn[accepted[r]] = "open" /\ ~Pending(accepted[r], r))
                  => Cardinality(Answers(accepted[r], r)) = 1)
    /\ \A r \in 1..MaxRequests :
          (r \in DOMAIN accepted)
             ~> (/\ r \in DOMAIN accepted
                 /\ \/ Cardinality(Answers(accepted[r], r)) = 1
                    \/ conn[accepted[r]] # "open")

C10_Witness ==
    \E s \in SessionIds : \E i \in DOMAIN stream[s] : \E j \in DOMAIN stream[s] :
       /\ variant = "factory"
       /\ conn[s] = "open"
       /\ stream[s][i].type = "response"
       /\ stream[s][i].result = "error"
       /\ stream[s][j].type = "response"
       /\ stream[s][j].result = "success"
       /\ Cardinality(Answers(s, stream[s][i].id)) = 1

\* the step is a CloseSession on id s
Closing(s) == closes'[s] # closes[s]

C12_ClosedIsTerminal ==
    /\ [](\A s \in SessionIds : conn[s] = "closed" => s \notin live)
    /\ [][\A s \in SessionIds :
            /\ conn[s] = "closed" =>
                  /\ conn'[s] = "closed"
                  /\ s \notin live'
                  /\ stream'[s] = stream[s]
                  /\ (http' # NoHttp /\ http'.sid = s) =>
                        (http'.status = 404 /\ inbox' = inbox /\ accepted' = accepted)
            /\ (/\ conn[s] = "open"
                /\ \/ (http' # NoHttp /\ http'.sid = s)
                   \/ /\ (cur.session = s \/ cur'.session = s)
                      /\ (cur' # cur \/ rpc' # rpc \/ attempt' # attempt \/ trace' # trace))
                  => (conn'[s] = "open" /\ s \in live /\ s \in live')]_vars

C12_Witness ==
    \E s \in SessionIds :
       /\ conn[s] = "closed"
       /\ http.sid = s
       /\ http.status = 404
       /\ \E i \in DOMAIN stream[s] : stream[s][i].type = "response"

HasProtocolError(s) == \E i \in DOMAIN stream[s] : stream[s][i].type = "protocol_error"

\* C13: a POST whose body cannot be decoded is answered with a protocol
\* error written on the session's stream and closes nothing: the session
\* stays open and in the mapping, and the requests it accepts (before or
\* after) are answered exactly once when handled.
C13_DecodeFailureKeepsSession ==
    /\ [][\A s \in SessionIds :
            (http' # NoHttp /\ http'.sid = s /\ http'.status = 400 /\ conn[s] = "open") =>
               /\ stream'[s] = Append(stream[s], Event("protocol_error", s, 0, "error"))
               /\ conn'[s] = "open"
               /\ s \in live'
               /\ live' = live
               /\ inbox' = inbox]_vars
    /\ [](\A s \in SessionIds :
            (HasProtocolError(s) /\ conn[s] = "open") =>
               /\ s \in live
               /\ \A r \in DOMAIN accepted :
                     (accepted[r] = s /\ ~Pending(s, r)) => Cardinality(Answers(s, r)) = 1)

C13_Witness ==
    \E s \in SessionIds : \E i \in DOMAIN stream[s] : \E j \in DOMAIN stream[s] :
       /\ conn[s] = "open"
       /\ s \in live
       /\ stream[s][i].type = "protocol_error"
       /\ i < j
       /\ stream[s][j].type = "response"
       /\ stream[s][j].result = "success"

\* C14: a tool handler always returns a string: for every tool of every
\* server file, whether the backend call succeeded, failed on every attempt
\* or gave a malformed answer, the handler's result is a success string or an
\* error string, never an exception; it is a success string only if the call
\* returned, and it is given only once the call is over.
C14_ToolNeverRaises ==
    /\ reply.kind \in {"none", "success", "error"}
    /\ (cur.session = NoSession /\ reply # NoReply) =>
          /\ Finished
          /\ cur.method \in ToolsOf(variant)
          /\ rpc = "raised" => reply.kind = "error"
          /\ reply.kind = "success" => rpc = "returned"

C14_Witness ==
    /\ variant = "factory"
    /\ cur.method = "delete_memory"
    /\ rpc = "raised"
    /\ Len(trace) = 3
    /\ reply.kind = "error"

\* the user a caller means: the one it names, the default one if it names none
IntendedUser(u) == IF u = NoUser THEN DEFAULT_USER_ID ELSE u

\* C15: whenever a caller passes a user_id to an adapter operation, the
\* backend call is made with exactly that user_id.
C15_ScopedToSuppliedUser ==
    (call.op # "none" /\ call.passed # NoUser) => call.sent = call.passed

\* C16: a successful get_all / search returns every record of the caller's
\* user with the content that was supplied when it was added (or last
\* updated), and returns no record that belongs to another user.
C16_RoundTrip ==
    (call.op \in {"get_all", "search"} /\ reply.kind = "success") =>
       /\ \A r \in backend :
             IntendedUser(r.by) = IntendedUser(call.passed) =>
                [id |-> r.id, memory |-> r.supplied] \in reply.records
       /\ \A x \in reply.records : \A r \in backend :
             r.id = x.id => IntendedUser(r.by) = IntendedUser(call.passed)

\* C17: the first event on a session's stream is its endpoint event, carrying
\* that session's own id, so no two sessions announce the same address; it
\* is the only endpoint event of the stream and precedes every response; it
\* is written by the step that registers a fresh id in the mapping.
C17_EndpointEventFirst ==
    /\ [](\A s \in SessionIds :
            /\ (s \in opened) <=> (stream[s] # <<>>)
            /\ stream[s] # <<>> =>
                  /\ stream[s][1].type = "endpoint"
                  /\ stream[s][1].session = s
            /\ \A i \in DOMAIN stream[s] : i > 1 => stream[s][i].type # "endpoint"
            /\ \A t \in SessionIds \ {s} :
                  (stream[s] # <<>> /\ stream[t] # <<>>) =>
                      stream[s][1].session # stream[t][1].session)
    /\ [](live \subseteq opened)
    /\ [][\A s \in SessionIds :
            (stream[s] = <<>> /\ stream'[s] # <<>>) =>
               /\ s \notin opened
               /\ s \in opened'
               /\ s \in live'
               /\ Len(stream'[s]) = 1
               /\ \A t \in SessionIds \ {s} : stream'[t] = stream[t]]_vars

C17_Witness ==
    \E s \in SessionIds, t \in SessionIds :
       /\ s # t
       /\ stream[s] # <<>> /\ stream[s][1].type = "endpoint"
       /\ stream[t] # <<>> /\ stream[t][1].type = "endpoint"
       /\ stream[s][1].session # stream[t][1].session
       /\ Len(stream[s]) >= 2
       /\ stream[s][2].type = "response"

\* C18: an open session is in the mapping, and a POST to it is never
\* answered 404 or 410: a well-formed request is answered 202 and queued,
\* and the only other answer is the 400 of a body that cannot be decoded.
C18_OpenSessionPostAccepted ==
    /\ [](\A s \in SessionIds : conn[s] = "open" => s \in live)
    /\ [][\A s \in SessionIds :
            /\ (http' # NoHttp /\ http'.sid = s /\ conn[s] = "open") =>
                  /\ http'.status \notin {404, 410}
                  /\ \/ http'.status \in {200, 202} /\ accepted' = Append(accepted, s)
                     \/ http'.status = 400 /\ http'.error = "parse_error"
            /\ \A m \in PostedTools :
                  (conn[s] = "open" /\ HandlePostMessage(s, TRUE, m)) =>
                     (http'.status \in {200, 202} /\ Len(inbox'[s]) = Len(inbox[s]) + 1)]_vars

C18_Witness ==
    /\ http.status = 202
    /\ http.sid \in live
    /\ conn[http.sid] = "open"
    /\ Len(accepted) = 2
    /\ \E i \in DOMAIN stream[http.sid] : stream[http.sid][i].type = "response"

\* C19: while the tool call of one session sleeps between two attempts the
\* server can still serve the others: accept a new connection, answer a
\* POST, start a queued request of another session, close another session.
C19_BackoffBlocksOnlyCaller ==
    (cur # NoReq /\ rpc = "sleeping") =>
       /\ opened # SessionIds => ENABLED OpenSession
       /\ ENABLED PostMessage
       /\ (\E t \in live \ {cur.session} : inbox[t] # <<>>) => ENABLED StartHandle
       /\ (\E t \in SessionIds \ {cur.session} : conn[t] = "dropped") => ENABLED ConnectionEnds

\* C20: a disconnect does not abort the call in flight (the handler goes on
\* where it was and leaves the loop only when the call is over), and the
\* result of a call whose session's connection is gone is written on no
\* stream.
C20_LateResultDiscarded ==
    [][\A s \in SessionIds :
          /\ (cur.session = s /\ conn[s] = "open" /\ conn'[s] # "open") =>
                (cur' = cur /\ rpc' = rpc /\ attempt' = attempt /\ trace' = trace)
          /\ (cur.session = s /\ cur' # cur) => (Finished /\ cur' = NoReq)
          /\ (cur.session = s /\ cur' = NoReq /\ conn[s] # "open") => stream' = stream]_vars

C20_Witness ==
    \E r \in DOMAIN accepted :
       /\ conn[accepted[r]] = "dropped"
       /\ ~Pending(accepted[r], r)
       /\ Answers(accepted[r], r) = {}
       /\ cur = NoReq

\* C21: once the client of an open session has disconnected, the session is
\* eventually closed and its entry is eventually out of the mapping, in
\* whatever state the server is at the disconnect, a retry backoff of that
\* session's call included; by then no call of the session is in flight.
C21_DisconnectEventuallyCloses ==
    \A s \in SessionIds :
       (conn[s] = "dropped") ~> (conn[s] = "closed" /\ s \notin live /\ cur.session # s)

C21_Witness ==
    \E s \in opened :
       /\ conn[s] = "closed"
       /\ s \notin live
       /\ \E r \in DOMAIN accepted : accepted[r] = s /\ Answers(s, r) = {}
       /\ \E t \in live : conn[t] = "open"

\* a step in which something fails inside session s: the backend call of its
\* request raises, the retries of its request are used up, its handler hands
\* back an error, a malformed message arrives on it, or its stream breaks
FailsInside(s) ==
    \/ /\ cur.session = s
       /\ \/ rpc # "raised" /\ rpc' = "raised"
          \/ Len(trace') > Len(trace) /\ trace'[Len(trace')] # "ok"
          \/ rpc = "raised" /\ cur' = NoReq
    \/ Len(stream'[s]) > Len(stream[s]) /\ stream'[s][Len(stream'[s])].type = "protocol_error"
    \/ conn[s] = "open" /\ conn'[s] = "dropped"

\* C22: a failure inside one session (the backend call raising, all attempts
\* failing, an error result, a malformed message, a broken stream) leaves
\* every other open session as it was: connection, mapping entry, stream and
\* queued requests; and whenever the loop is free the listener accepts a new
\* session, whatever has failed before.
C22_FailureStaysInSession ==
    /\ []((LoopFree /\ opened # SessionIds) => ENABLED OpenSession)
    /\ [][\A s \in SessionIds : FailsInside(s) =>
             \A t \in SessionIds \ {s} : conn[t] = "open" =>
                /\ conn'[t] = "open"
                /\ t \in live'
                /\ stream'[t] = stream[t]
                /\ inbox'[t] = inbox[t]]_vars

C22_Witness ==
    \E s \in opened : \E t \in live \ {s} :
       /\ \E i \in DOMAIN stream[s] : stream[s][i].type = "response" /\ stream[s][i].result = "error"
       /\ conn[s] = "dropped"
       /\ conn[t] = "open"
       /\ inbox[t] # <<>>
       /\ ENABLED StartHandle

\* C25: retry_operation returns the result of the function or raises the last
\* exception, for every max_retries, zero and negative values included: what
\* it raises is an exception the function raised, and the function has been
\* invoked at least once when the call is over.
C25_RaisesWhatFuncRaised ==
    /\ rpc = "raised" =>
          /\ outcome.kind \in ErrorKinds
          /\ \E i \in DOMAIN trace : trace[i] = outcome.kind /\ outcome.at = i
    /\ Finished => Len(trace) >= 1

\* the response written in this step on the stream of session s, if any
Written(s) ==
    /\ Len(stream'[s]) > Len(stream[s])
    /\ stream'[s][Len(stream'[s])].type = "response"

\* the backend add of the call in flight succeeded within its budget
AddSucceeded ==
    /\ rpc = "returned"
    /\ trace # <<>>
    /\ trace[Len(trace)] = "ok"
    /\ Len(trace) <= max_retries

\* C24 as stated: in every server an add_memory request posted to an open
\* session is answered on that session's stream with the request's id, and
\* the result is "Successfully added to memory: <text>" exactly when the
\* backend add succeeded within the retry budget.
C24_SuccessTextEverywhere ==
    [][\A s \in SessionIds : Written(s) =>
          LET ev == stream'[s][Len(stream'[s])] IN
             /\ cur.session = s /\ ev.id = cur.id /\ accepted[ev.id] = s
             /\ (ev.text = "Successfully added to memory: " \o RequestText(cur)) <=> AddSucceeded]_vars

\* C26: the tools are registered once at startup and the registry is not
\* changed afterwards; in the server built by create_server the configured
\* mode decides the set: "basic" exposes exactly the three basic tools,
\* "full" those and the eight advanced ones.
C26_ModeDecidesRegistry ==
    /\ Cardinality(BasicTools) = 3
    /\ Cardinality(AllTools \ BasicTools) = 8
    /\ variant = "factory" =>
          registry = (IF mode = "basic" THEN BasicTools ELSE AllTools)

\* C23: GET / and GET /health are answered with a JSON object that has the
\* keys status, service and timestamp, in every server and whatever the
\* session mapping holds, and serving them changes no session.
C23_HealthEverywhere ==
    /\ [](health # NoHealth =>
            /\ health.status = 200
            /\ {"status", "service", "timestamp"} \subseteq health.fields)
    /\ [][health' # health => UNCHANGED <<live, opened, conn, inbox, stream, accepted>>]_vars

\* the lower-cased contents the backend held when the run started, as far as
\* the run knows them: what is in existing_contents and was not put there by
\* an import of this run
ImportedBefore(r, k) ==
    {Lower(r.entries[j].content) : j \in {j \in 1..(k - 1) : r.log[j] = "imported"}}
ExistingAtStart(r) == r.existing \ ImportedBefore(r, Len(r.log) + 1)

\* C27: import_single with skip_duplicates=False skips no memory, also when
\* the file holds the same content more than once; with skip_duplicates=True
\* a memory is skipped exactly when its lower-cased content equals that of an
\* existing memory or of a memory imported earlier in the run.
C27_SkipsOnlyWhenAsked ==
    (imp.who = "chatwise" /\ imp.pc \in {"loop", "done"}) =>
       \A k \in DOMAIN imp.log :
          (imp.log[k] = "skipped") <=>
             /\ imp.skipdup
             /\ \/ Lower(imp.entries[k].content) \in ExistingAtStart(imp)
                \/ Lower(imp.entries[k].content) \in ImportedBefore(imp, k)

\* the number on the counter line of a summary that has the label, 0 when the
\* summary has no such line
CountOn(lines, label) ==
    LET at == {k \in DOMAIN lines : lines[k].label = label}
    IN IF at = {} THEN 0
       ELSE lines[CHOOSE k \in at : \A j \in at : k <= j].fields[1][1].n

\* the entries of the errors list that say "Failed to add"
FailedToAdd(r) == {k \in DOMAIN r.errors : r.errors[k].fields = Reason("add")}

\* C28 as stated: when import_single or import_memories has finished without
\* a top-level failure, imported + skipped + errors is the number of entries
\* to import and the backend add has returned without raising exactly
\* imported times.
C28_AddsAreImports ==
    (imp.who \in {"chatwise", "render"} /\ imp.pc = "done") =>
       /\ imp.imported + imp.skipped + Len(imp.errors) = Len(imp.entries)
       /\ imp.adds = imp.imported

\* C28: in a run of import_single or import_memories that reaches its loop,
\* imported + skipped + errors is the number of entries gone through, at the
\* end the number of entries to import, and the summary carries these
\* counts. In import_single the backend add has returned exactly imported
\* times, whatever it answered; in import_memories it has returned a
\* non-empty answer exactly imported times, and every empty answer is one
\* "Failed to add" among the errors.
C28_CountsAddUp ==
    (imp.who \in {"chatwise", "render"} /\ imp.pc \in {"loop", "done"}) =>
       /\ imp.imported + imp.skipped + Len(imp.errors) = imp.i
       /\ imp.who = "chatwise" => imp.adds = imp.imported
       /\ imp.who = "render" =>
             /\ imp.adds - imp.empty = imp.imported
             /\ Cardinality(FailedToAdd(imp)) = imp.empty
       /\ imp.pc = "done" =>
             /\ imp.i = Len(imp.entries)
             /\ CountOn(imp.result, SummaryLabel(imp.who, "Imported")) = imp.imported
             /\ CountOn(imp.result, SummaryLabel(imp.who, "Skipped")) = imp.skipped
             /\ CountOn(imp.result, SummaryLabel(imp.who, "Errors")) = Len(imp.errors)

C28_Witness ==
    /\ imp.who = "render"
    /\ imp.pc = "done"
    /\ imp.imported > 0
    /\ imp.skipped > 0
    /\ imp.empty > 0
    /\ Len(imp.errors) = imp.empty
    /\ Len(imp.entries) = MaxEntries

\* C29: import_batch marks a file as failed exactly when importing it
\* failed and as Success otherwise, and its totals are the sums of the
\* counts of the files.
RECURSIVE SumOf(_, _)
SumOf(details, field) ==
    IF details = <<>> THEN 0
    ELSE (CASE field = "imported" -> Head(details).run.imported
            [] field = "skipped" -> Head(details).run.skipped
            [] OTHER -> Len(Head(details).run.errors)) + SumOf(Tail(details), field)

C29_FailedFilesMarked ==
    /\ \A k \in DOMAIN batch.details :
          (batch.details[k].mark = "Failed") <=> (batch.details[k].run.pc = "failed")
    /\ batch.imported = SumOf(batch.details, "imported")
    /\ batch.skipped = SumOf(batch.details, "skipped")
    /\ batch.errors = SumOf(batch.details, "errors")

\* C30: get_client gives out one shared adapter: at most one wrapper is ever
\* built, every component that got a client holds that one wrapper with the
\* one default user id, a call made after a successful construction builds
\* nothing, and a failed construction leaves the global unset, so that the
\* next call constructs again.
C30_OneSharedClient ==
    /\ [](/\ client.built <= 1
          /\ (client.built = 0) <=> (client.instance = NoWrapper)
          /\ \A c \in Callers :
                /\ holders[c] \in {NoWrapper, client.instance}
                /\ (holders[c] # NoWrapper) => (holders[c].default_user_id = DEFAULT_USER_ID))
    /\ [][/\ (client.instance # NoWrapper) =>
              (/\ client'.instance = client.instance
               /\ client'.built = client.built
               /\ client'.failed = client.failed)
          /\ (client'.failed > client.failed) =>
              (/\ client.instance = NoWrapper
               /\ client'.instance = NoWrapper
               /\ holders' = holders)
          /\ (client.instance = NoWrapper /\ client'.calls > client.calls) =>
              (client'.built = client.built + 1 \/ client'.failed = client.failed + 1)]_vars

C30_Witness ==
    /\ client.failed >= 1
    /\ client.built = 1
    /\ \A c \in Callers : holders[c] = client.instance
    /\ client.calls = client.failed + 4
====
